---- MODULE Spec2Model ----
(***************************************************************************)
(* A model of the credential-proxy and authentication-resolution layer of  *)
(* the Strapi cost-optimizer backend:                                      *)
(*   - ProxyUserService (proxy JWT cache, API tokens, request forwarder),  *)
(*   - ContentService.getPluralName / getContentTypes (plural resolver),   *)
(*   - AzureEasyAuthStrategy, AzureEasyAuthGuard and CombinedAuthGuard.    *)
(* Every handler is async: each await is a point where other requests run, *)
(* so a handler is one action per stretch of code between two awaits.      *)
(***************************************************************************)
EXTENDS Integers, Sequences, FiniteSets, TLC

VARIABLES
    now,          \* Date.now(), in milliseconds
    jwtCache,     \* ProxyUserService.jwtCache : Map<role, {token, expiresAt}>
    apiTokens,    \* ProxyUserService.apiTokens : Map<roleKey, env value>
    pcalls,       \* in-flight getProxyJWT / forwardRequestToStrapi calls
    issued,       \* number of POST /admin/login calls sent so far
    lastProxy,    \* outcome of the call of ProxyUserService that finished last
    catalog,            \* the content types the Strapi content-type-builder returns
    contentTypesCache,  \* ContentService.contentTypesCache : Map<key, {singularName, pluralName}>
    ccalls,             \* in-flight getPluralName calls
    resolved,           \* history: the <<alias, plural>> pairs of every successful resolution
    lastContent,        \* outcome of the getPluralName call that finished last
    usersDb,      \* the users table behind usersRepository
    sessions,     \* SessionService.sessions : Map<sessionId, SessionData>
    sessionSeq,   \* number of sessions created so far
    acalls,       \* in-flight CombinedAuthGuard.canActivate calls
    authStarted,  \* number of guarded requests received so far
    lastAuth,     \* outcome of the guarded request that finished last
    scalls,       \* in-flight AuthService.login / SessionService.validateSession calls
    evicted,      \* history: the sessions validateSession removed for a missing or blocked user
    lastSession,  \* outcome of the session operation that finished last
    auditLog,     \* the content_audit_log table, in timestamp order
    lastAudit,    \* outcome of the AuditService call that finished last
    lastService,  \* outcome of the ContentService item operation that finished last
    icall,        \* the ContentController request in flight
    lastItem,     \* outcome of the ContentController request that finished last
    pendingAudit, \* audit rows handed to logOperation whose save has not settled
    lastStats,    \* outcome of the GET /api/auth/sessions/stats request that finished last
    lastTypes     \* outcome of the content-types request that finished last

proxyVars == <<now, jwtCache, apiTokens, pcalls, issued, lastProxy>>
contentVars == <<catalog, contentTypesCache, ccalls, resolved, lastContent>>
authVars == <<usersDb, sessions, sessionSeq, acalls, authStarted, lastAuth>>
sessionVars == <<scalls, evicted, lastSession>>
auditVars == <<auditLog, lastAudit>>
itemVars == <<lastService, icall, lastItem, pendingAudit>>
statsVars == <<lastStats>>
typeVars == <<lastTypes>>
vars == <<proxyVars, contentVars, authVars, sessionVars, auditVars, itemVars, statsVars, typeVars>>

(***************************************************************************)
(* Bounds of the model.                                                    *)
(***************************************************************************)
MaxProcs == 2
MaxTicks == 2
MaxLogins == 2
MaxTypes == 2
MaxContentCalls == 1
MaxAuthCalls == 2
MaxSessions == 2
MaxAuditEntries == 3
MaxItemWrites == 2
MaxDays == 2

Procs == 1..MaxProcs

(***************************************************************************)
(* Time.  The clock advances in steps of three days, so that a cached JWT  *)
(* (valid for six days) is seen before, exactly at and after its expiry.   *)
(***************************************************************************)
DayMs == 24 * 60 * 60 * 1000
TickMs == 3 * DayMs
CacheTtlMs == 6 * DayMs

(***************************************************************************)
(* ProxyUserService: configuration.                                        *)
(***************************************************************************)
\* The roles a caller may pass.  'Viewer' is forwardRequestToStrapi's default.
CallerRoles == {"Super Admin", "admin", "editor", "author", "viewer", "Viewer"}

\* The four application roles the proxy pool is documented to serve.
AppRoles == {"admin", "editor", "author", "viewer"}

\* proxyUsers: the roles that have a proxy identity.
ProxyUsers == {"Super Admin"}

\* Mutant of HasProxyUser: every role is taken to have a proxy identity.
HasProxyUser_Any(role) == TRUE

\* this.proxyUsers.find((u) => u.role === role)
HasProxyUser(role) == role \in ProxyUsers

\* String.prototype.toLowerCase on the role names of the model.
RoleToLower(role) ==
    CASE role = "Super Admin" -> "super admin"
      [] role = "Viewer" -> "viewer"
      [] OTHER -> role

ApiTokenKeys == {"admin", "editor", "author", "viewer"}

\* String.prototype.trim on the environment values of the model.
Trim(s) == IF s = " " THEN "" ELSE s

\* The environments the service may be constructed in: each
\* STRAPI_API_TOKEN_<ROLE> unset (''), blank or set.
ApiTokenConfigs ==
    { [k \in ApiTokenKeys |-> ""],
      [k \in ApiTokenKeys |-> "tok-" \o k],
      [k \in ApiTokenKeys |->
          CASE k = "admin" -> "tok-admin"
            [] k = "editor" -> " "
            [] k = "author" -> ""
            [] OTHER -> "tok-viewer"] }

\* getApiTokenForRole: the key the role is looked up under.
RoleKey(role) ==
    CASE RoleToLower(role) = "super admin" -> "admin"
      [] RoleToLower(role) = "editor" -> "editor"
      [] RoleToLower(role) = "author" -> "author"
      [] RoleToLower(role) = "viewer" -> "viewer"
      [] OTHER -> role

\* The JavaScript value null, as it is interpolated into `Bearer ${authToken}`.
NullToken == "null"

\* getApiTokenForRole(role): the role's API token, or null.
GetApiTokenForRole(role) ==
    LET roleKey == RoleKey(role)
        apiToken == IF roleKey \in DOMAIN apiTokens THEN apiTokens[roleKey] ELSE ""
    IN  IF apiToken # "" /\ Trim(apiToken) # "" THEN apiToken ELSE NullToken

\* url.includes('/api/') on the request paths of the model.
Urls == {"/api/articles", "/admin/users"}
IncludesApi(url) == url \in {"/api/articles"}

(***************************************************************************)
(* ProxyUserService: the JWT cache.                                        *)
(***************************************************************************)
\* Mutant of IsFresh: an entry still counts as valid at its expiresAt.
IsFresh_Inclusive(entry, t) == t <= entry.expiresAt

\* Date.now() < cached.expiresAt
IsFresh(entry, t) == t < entry.expiresAt

\* Mutant of EvictJWT: the expired entry is left in the cache.
EvictJWT_Keep(cache, role) == cache

\* this.jwtCache.delete(role)
EvictJWT(cache, role) == [r \in (DOMAIN cache) \ {role} |-> cache[r]]

\* Mutant of CacheProxyJWT: the new token is returned but not cached.
CacheProxyJWT_Skip(cache, role, jwt, t) == cache

\* cacheProxyJWT(role, jwt) at time t
CacheProxyJWT(cache, role, jwt, t) ==
    [r \in (DOMAIN cache) \cup {role} |->
        IF r = role THEN [token |-> jwt, expiresAt |-> t + CacheTtlMs]
        ELSE cache[r]]

\* The token Strapi issues in answer to the n-th POST /admin/login.
MintToken(n) == "jwt" \o ToString(n)

IdleCall ==
    [pc |-> "idle", op |-> "none", role |-> "none", url |-> "none", stale |-> FALSE,
     login |-> 0]

NoProxyResult ==
    [op |-> "none", role |-> "none", url |-> "none", outcome |-> "none",
     error |-> "none", token |-> "none", source |-> "none", logins |-> 0,
     stale |-> FALSE]

\* What a finished call leaves behind.  op is "jwt" for getProxyJWT and "fwd"
\* for forwardRequestToStrapi; token is the token returned, or the one sent
\* in the Authorization header; source says where it came from; logins counts
\* the POST /admin/login calls the call sent; stale says that the call found
\* a cache entry whose expiresAt had passed.
ProxyResult(op, role, url, outcome, error, token, source, logins, stale) ==
    [op |-> op, role |-> role, url |-> url, outcome |-> outcome,
     error |-> error, token |-> token, source |-> source, logins |-> logins,
     stale |-> stale]

\* The outcomes of the upstream request forwardRequestToStrapi sends;
\* getProxyJWT sends none.
UpstreamOutcomes(op) == IF op = "fwd" THEN {"ok", "error"} ELSE {"ok"}

\* getProxyJWT(role), from its entry to its first await (or to its return):
\* the cache check, the eviction of an expired entry, the proxy-user lookup
\* and the sending of POST /admin/login.  forwardRequestToStrapi on a path
\* outside /api/ runs the same code and then sends the request with the
\* token in its Authorization header.
GetProxyJWTCheck(p, op, role, url) ==
    LET cached == role \in DOMAIN jwtCache
        stale == cached /\ now >= jwtCache[role].expiresAt
        hit == cached /\ IsFresh(jwtCache[role], now)
        afterCheck == IF cached /\ ~hit THEN EvictJWT(jwtCache, role) ELSE jwtCache
    IN  /\ pcalls[p].pc = "idle"
        /\ IF hit
           THEN /\ \E upstream \in UpstreamOutcomes(op) :
                     lastProxy' = ProxyResult(op, role, url, upstream,
                                     IF upstream = "ok" THEN "none" ELSE "Upstream",
                                     jwtCache[role].token, "cache", 0, stale)
                /\ UNCHANGED <<jwtCache, pcalls, issued>>
           ELSE IF ~HasProxyUser(role)
           THEN /\ lastProxy' = ProxyResult(op, role, url, "error", "ProxyUserNotFound",
                                     "none", "none", 0, stale)
                /\ jwtCache' = afterCheck
                /\ UNCHANGED <<pcalls, issued>>
           ELSE /\ issued < MaxLogins
                /\ issued' = issued + 1
                /\ jwtCache' = afterCheck
                /\ pcalls' = [pcalls EXCEPT ![p] =
                       [pc |-> "login", op |-> op, role |-> role, url |-> url,
                        stale |-> stale, login |-> issued + 1]]
                /\ UNCHANGED lastProxy
        /\ UNCHANGED <<now, apiTokens>>

\* getProxyJWT(role) called directly.
GetProxyJWT(p, role) == GetProxyJWTCheck(p, "jwt", role, "none")

\* authenticateProxyUser resolves: the JWT is cached and returned (and, in
\* forwardRequestToStrapi, sent upstream).
LoginSucceeds(p) ==
    LET c == pcalls[p]
        jwt == MintToken(c.login)
    IN  /\ c.pc = "login"
        /\ jwtCache' = CacheProxyJWT(jwtCache, c.role, jwt, now)
        /\ \E upstream \in UpstreamOutcomes(c.op) :
              lastProxy' = ProxyResult(c.op, c.role, c.url, upstream,
                              IF upstream = "ok" THEN "none" ELSE "Upstream",
                              jwt, "login", 1, c.stale)
        /\ pcalls' = [pcalls EXCEPT ![p] = IdleCall]
        /\ UNCHANGED <<now, apiTokens, issued>>

\* authenticateProxyUser rejects (non-2xx, network error, no token in the
\* response): getProxyJWT rethrows and caches nothing.
LoginFails(p) ==
    LET c == pcalls[p]
    IN  /\ c.pc = "login"
        /\ lastProxy' = ProxyResult(c.op, c.role, c.url, "error", "AuthFailed",
                            "none", "none", 1, c.stale)
        /\ pcalls' = [pcalls EXCEPT ![p] = IdleCall]
        /\ UNCHANGED <<now, jwtCache, apiTokens, issued>>

\* forwardRequestToStrapi(method, url, data, proxyRole)
ForwardRequestToStrapi(p, url, role) ==
    IF IncludesApi(url)
    THEN /\ pcalls[p].pc = "idle"
         /\ LET authToken == GetApiTokenForRole(role)
            IN  \E upstream \in {"ok", "error"} :
                  lastProxy' = ProxyResult("fwd", role, url, upstream,
                                  IF upstream = "ok" THEN "none" ELSE "Upstream",
                                  authToken,
                                  IF authToken = NullToken THEN "null" ELSE "apiToken",
                                  0, FALSE)
         /\ UNCHANGED <<now, jwtCache, apiTokens, pcalls, issued>>
    ELSE GetProxyJWTCheck(p, "fwd", role, url)

\* Time passes.
Tick ==
    /\ now < MaxTicks * TickMs
    /\ now' = now + TickMs
    /\ UNCHANGED <<jwtCache, apiTokens, pcalls, issued, lastProxy>>

ProxyInit ==
    /\ now = 0
    /\ jwtCache = << >>
    /\ apiTokens \in ApiTokenConfigs
    /\ pcalls = [p \in Procs |-> IdleCall]
    /\ issued = 0
    /\ lastProxy = NoProxyResult

\* The service before any call, in one fixed environment.
ProxyIdle ==
    /\ now = 0
    /\ jwtCache = << >>
    /\ apiTokens = [k \in ApiTokenKeys |-> ""]
    /\ pcalls = [p \in Procs |-> IdleCall]
    /\ issued = 0
    /\ lastProxy = NoProxyResult

(***************************************************************************)
(* ContentService: names.  A name is a sequence of characters; the empty   *)
(* sequence stands for a missing (undefined, null or '') string.           *)
(***************************************************************************)
Empty == << >>

\* String.prototype.toLowerCase, character by character.
LowerChar(c) ==
    CASE c = "A" -> "a"
      [] c = "S" -> "s"
      [] c = "B" -> "b"
      [] c = "E" -> "e"
      [] OTHER -> c

Lower(name) == [i \in 1..Len(name) |-> LowerChar(name[i])]

\* name + 's'
AppendS(name) == Append(name, "s")

\* 'unknown', the apiID of a type that declares none.
Unknown == <<"u", "n", "k", "n", "o", "w", "n">>

(***************************************************************************)
(* The upstream catalog.  An entry carries what getContentTypes reads:     *)
(* apiID, schema.kind, schema.visible, info.singularName, info.pluralName. *)
(***************************************************************************)
RawType(apiID, singularName, pluralName, kind, visible) ==
    [apiID |-> apiID, singularName |-> singularName, pluralName |-> pluralName,
     kind |-> kind, visible |-> visible]

RawTypes ==
    { \* singular 'A', plural 'as': the plural is the lower-cased singular + 's'
      RawType(<<"a">>, <<"A">>, <<"a", "s">>, "collectionType", "unset"),
      \* no info.singularName and no info.pluralName
      RawType(<<"a">>, Empty, Empty, "collectionType", "unset"),
      \* named like the plural of the first type, with an irregular plural
      RawType(<<"a", "s">>, Empty, <<"b">>, "singleType", "true"),
      \* an irregular plural in upper case
      RawType(<<"b">>, <<"b">>, <<"A", "S">>, "collectionType", "true"),
      \* hidden (schema.visible === false)
      RawType(<<"a">>, <<"A">>, <<"a", "s">>, "collectionType", "false"),
      \* not a collection or single type
      RawType(<<"b">>, Empty, <<"b", "s">>, "component", "unset") }

Catalogs == UNION { [1..n -> RawTypes] : n \in 0..MaxTypes }

\* The names a caller may pass as contentTypeParam.
Inputs == {<<"a">>, <<"A", "s">>, <<"b">>, <<"z">>}

\* getContentTypes: the filter (kind and schema.visible).
IsListed(strapiType) ==
    /\ strapiType.kind \in {"collectionType", "singleType"}
    /\ strapiType.visible # "false"

\* Mutant of MapContentType: a missing pluralName is made up as apiID + 's'.
MapContentType_AddS(strapiType) ==
    LET finalApiID == IF strapiType.apiID # Empty THEN strapiType.apiID ELSE Unknown
    IN  [name |-> finalApiID,
         singularName |-> IF strapiType.singularName # Empty
                          THEN strapiType.singularName ELSE finalApiID,
         pluralName |-> IF strapiType.pluralName # Empty
                        THEN strapiType.pluralName ELSE AppendS(finalApiID)]

\* getContentTypes: the mapping of one entry to {name, singularName, pluralName}.
MapContentType(strapiType) ==
    LET finalApiID == IF strapiType.apiID # Empty THEN strapiType.apiID ELSE Unknown
    IN  [name |-> finalApiID,
         singularName |-> IF strapiType.singularName # Empty
                          THEN strapiType.singularName ELSE finalApiID,
         pluralName |-> strapiType.pluralName]

\* getContentTypes on a response of a recognised shape.
MappedContentTypes(types) ==
    LET filtered == SelectSeq(types, IsListed)
    IN  [i \in 1..Len(filtered) |-> MapContentType(filtered[i])]

\* What the catalog request may come back as: a recognised envelope, an
\* unrecognised one (getContentTypes returns []), or an upstream failure.
CatalogResponses == {"ok", "badShape", "error"}

\* getPluralName: the predicate of contentTypes.find.
Matches(ct, paramLower) ==
    \/ Lower(ct.name) = paramLower
    \/ Lower(ct.singularName) = paramLower
    \/ (ct.pluralName # Empty /\ Lower(ct.pluralName) = paramLower)

\* contentTypes.find(...): the index of the first match, 0 when there is none.
FindMatch(contentTypes, paramLower) ==
    LET hits == {i \in 1..Len(contentTypes) : Matches(contentTypes[i], paramLower)}
    IN  IF hits = {} THEN 0 ELSE CHOOSE i \in hits : \A j \in hits : i <= j

\* this.contentTypesCache.set(key, entry)
CacheSet(cache, key, entry) ==
    [k \in (DOMAIN cache) \cup {key} |-> IF k = key THEN entry ELSE cache[k]]

\* getPluralName: "Cache by all possible keys for future lookups".
CacheMatched(cache, matched) ==
    LET singular == IF matched.singularName # Empty THEN matched.singularName ELSE matched.name
        plural == matched.pluralName
        entry == [singularName |-> singular, pluralName |-> plural]
        c1 == IF singular # Empty THEN CacheSet(cache, Lower(singular), entry) ELSE cache
        c2 == IF plural # Empty THEN CacheSet(c1, Lower(plural), entry) ELSE c1
    IN  IF matched.name # Empty THEN CacheSet(c2, Lower(matched.name), entry) ELSE c2

\* Mutant of TryResolve: an unmatched name is answered with name + 's'.
TryResolve_GuessPlural(response, param) ==
    IF response = "error"
    THEN [kind |-> "throw", error |-> "Upstream", index |-> 0, plural |-> Empty]
    ELSE LET contentTypes == IF response = "ok" THEN MappedContentTypes(catalog) ELSE << >>
             i == FindMatch(contentTypes, Lower(param))
         IN  IF i = 0
             THEN [kind |-> "return", error |-> "none", index |-> 0, plural |-> AppendS(param)]
             ELSE IF contentTypes[i].pluralName = Empty
             THEN [kind |-> "throw", error |-> "SchemaError", index |-> i, plural |-> Empty]
             ELSE [kind |-> "return", error |-> "none", index |-> i,
                   plural |-> contentTypes[i].pluralName]

\* getPluralName, the body of its try block once getContentTypes has
\* settled: it returns the matched type's pluralName, throws (the rejection
\* of getContentTypes, or the missing-pluralName error), or falls through.
TryResolve(response, param) ==
    IF response = "error"
    THEN [kind |-> "throw", error |-> "Upstream", index |-> 0, plural |-> Empty]
    ELSE LET contentTypes == IF response = "ok" THEN MappedContentTypes(catalog) ELSE << >>
             i == FindMatch(contentTypes, Lower(param))
         IN  IF i = 0
             THEN [kind |-> "fallthrough", error |-> "none", index |-> 0, plural |-> Empty]
             ELSE IF contentTypes[i].pluralName = Empty
             THEN [kind |-> "throw", error |-> "SchemaError", index |-> i, plural |-> Empty]
             ELSE [kind |-> "return", error |-> "none", index |-> i,
                   plural |-> contentTypes[i].pluralName]

\* getPluralName, from the try block on: a return of the try block is the
\* result; anything thrown inside it is caught and logged, and the function
\* then ends with the throw of its last line.
AfterTry(attempt) ==
    IF attempt.kind = "return"
    THEN [outcome |-> "ok", error |-> "none", value |-> attempt.plural]
    ELSE [outcome |-> "error", error |-> "NotFound", value |-> Empty]

IdleContentCall == [pc |-> "idle", param |-> Empty]

\* What a finished getPluralName call leaves behind: the value returned or
\* the error thrown to its caller, whether the catalog was fetched and what
\* came back, and what was thrown (and caught) inside the try block.
NoContentResult ==
    [op |-> "none", param |-> Empty, outcome |-> "none", error |-> "none",
     value |-> Empty, fetched |-> FALSE, response |-> "none", thrown |-> "none"]

\* The <<alias, plural>> pairs a successful resolution stands for.
AliasesOf(entry, name) ==
    { <<k, entry.pluralName>> : k \in {Lower(entry.singularName), Lower(entry.pluralName), Lower(name)} }

\* getPluralName(contentTypeParam, userRole), to its await: the cache check.
GetPluralNameCheck(p, param) ==
    LET paramLower == Lower(param)
        hit == /\ paramLower \in DOMAIN contentTypesCache
               /\ contentTypesCache[paramLower].pluralName # Empty
    IN  /\ ccalls[p].pc = "idle"
        /\ IF hit
           THEN /\ lastContent' = [op |-> "plural", param |-> param, outcome |-> "ok",
                                   error |-> "none",
                                   value |-> contentTypesCache[paramLower].pluralName,
                                   fetched |-> FALSE, response |-> "none",
                                   thrown |-> "none"]
                /\ resolved' = resolved \cup
                      AliasesOf(contentTypesCache[paramLower],
                                contentTypesCache[paramLower].singularName)
                /\ UNCHANGED ccalls
           ELSE /\ ccalls' = [ccalls EXCEPT ![p] = [pc |-> "fetch", param |-> param]]
                /\ UNCHANGED <<lastContent, resolved>>
        /\ UNCHANGED <<catalog, contentTypesCache>>

\* getPluralName after getContentTypes has settled.
GetPluralNameResume(p, response) ==
    LET param == ccalls[p].param
        attempt == TryResolve(response, param)
        result == AfterTry(attempt)
        matched == MappedContentTypes(catalog)[attempt.index]
    IN  /\ ccalls[p].pc = "fetch"
        /\ contentTypesCache' =
              IF attempt.kind = "return" /\ attempt.index # 0
              THEN CacheMatched(contentTypesCache, matched)
              ELSE contentTypesCache
        /\ resolved' =
              IF attempt.kind = "return" /\ attempt.index # 0
              THEN resolved \cup
                     AliasesOf([singularName |-> matched.singularName,
                                pluralName |-> matched.pluralName], matched.name)
              ELSE resolved
        /\ lastContent' = [op |-> "plural", param |-> param, outcome |-> result.outcome,
                           error |-> result.error, value |-> result.value,
                           fetched |-> TRUE, response |-> response,
                           thrown |-> attempt.error]
        /\ ccalls' = [ccalls EXCEPT ![p] = IdleContentCall]
        /\ UNCHANGED catalog

CProcs == 1..MaxContentCalls

ContentInit ==
    /\ catalog \in Catalogs
    /\ contentTypesCache = << >>
    /\ ccalls = [p \in CProcs |-> IdleContentCall]
    /\ resolved = {}
    /\ lastContent = NoContentResult

ContentIdle ==
    /\ catalog = << >>
    /\ contentTypesCache = << >>
    /\ ccalls = [p \in CProcs |-> IdleContentCall]
    /\ resolved = {}
    /\ lastContent = NoContentResult

(***************************************************************************)
(* SessionService: the in-memory session registry.                         *)
(***************************************************************************)
\* The strings Math.random().toString(36).substring(2, 15) can produce.
RandomParts == {"a", "b"}

\* generateSessionId(): `sess_${Date.now()}_${random}`
GenerateSessionId(t, random) == "sess_" \o ToString(t) \o "_" \o random

\* No session id (request.sessionId unset, or a lookup of no session).
NoSessionId == "none"

\* createSession: { ...userData, createdAt: now, lastAccessedAt: now }.  obj
\* is the serial number of the created object: two sessions stored under the
\* same id at different times are different objects.
NewSession(userData, obj, t) ==
    [userId |-> userData.userId, email |-> userData.email, role |-> userData.role,
     authKey |-> userData.authKey, authType |-> userData.authType,
     createdAt |-> t, lastAccessedAt |-> t, obj |-> obj]

\* The userData a session was created from.
SessionIdentity(session) ==
    [userId |-> session.userId, email |-> session.email, role |-> session.role,
     authKey |-> session.authKey, authType |-> session.authType]

\* this.sessions.set(sessionId, session)
SessionsSet(map, sessionId, session) ==
    [id \in (DOMAIN map) \cup {sessionId} |-> IF id = sessionId THEN session ELSE map[id]]

\* this.sessions.delete(sessionId)
SessionsDelete(map, sessionId) ==
    [id \in (DOMAIN map) \ {sessionId} |-> map[id]]

(***************************************************************************)
(* Identity resolution: AzureEasyAuthStrategy, AzureEasyAuthGuard and      *)
(* CombinedAuthGuard, over the users table and the session registry.       *)
(***************************************************************************)
\* The requests that can be in flight at once.
Requests == {"r1", "r2"}

UserIds == {"u1", "u2"}
NoUser == "none"
UserEmails == [u1 |-> "e1", u2 |-> "e2"]
UserRoles == [u1 |-> "editor", u2 |-> ""]

\* The users table before any request: u1 may already be bound to an
\* external identifier, u2 may be blocked and has no stored role.
UserTables ==
    { [u \in UserIds |->
          [email |-> UserEmails[u], role |-> UserRoles[u],
           authKey |-> IF u = "u1" THEN k ELSE "",
           blocked |-> IF u = "u2" THEN b ELSE FALSE]]
      : k \in {"", "k1"}, b \in BOOLEAN }

\* The x-ms-client-principal header after base64 and JSON decoding: the
\* values of the first emailaddress, name, nameidentifier and role claims
\* ("" or the empty sequence when there is no such claim).
Principal(email, name, nameidentifier, roles) ==
    [kind |-> "principal", email |-> email, name |-> name,
     nameidentifier |-> nameidentifier, roles |-> roles]

AdminRole == <<"A", "d", "m", "i", "n">>
EditorThenAdmin == <<"E", "d", "i", "t", "o", "r", ",", "a", "d", "m", "i", "n">>
GuestRole == <<"g", "u", "e", "s", "t">>

\* No header at all, and a header that is not base64 of a JSON object.
HeaderAbsent == [Principal("", "", "", Empty) EXCEPT !.kind = "absent"]
HeaderMalformed == [Principal("", "", "", Empty) EXCEPT !.kind = "malformed"]
Principals ==
    { Principal("e1", "", "k1", Empty),
      Principal("e1", "", "k2", AdminRole),
      Principal("e1", "", "", EditorThenAdmin),
      Principal("e2", "", "k1", GuestRole),
      Principal("", "", "k1", Empty),
      Principal("", "n", "", Empty),
      Principal("", "e1", "", Empty),
      Principal("", "", "", AdminRole) }
Headers == {HeaderAbsent, HeaderMalformed} \cup Principals

\* The Authorization header: none, or 'Bearer ' followed by a token that the
\* JWT strategy accepts or rejects.
Bearers == {"none", "valid", "invalid"}

HasAzureHeader(header) == header.kind # "absent"
\* Mutant of HasJwtToken: every request counts as carrying a bearer token.
HasJwtToken_Always(bearer) == TRUE

HasJwtToken(bearer) == bearer # "none"

\* a || b on strings
OrElse(a, b) == IF a # "" THEN a ELSE b

PrincipalEmail(h) == OrElse(h.email, OrElse(h.name, h.nameidentifier))
PrincipalAuthKey(h) == OrElse(h.nameidentifier, PrincipalEmail(h))

\* s.includes(t)
Includes(s, t) ==
    \E i \in 1..(Len(s) - Len(t) + 1) : SubSeq(s, i, i + Len(t) - 1) = t

\* s.split(',')[0]
SplitFirst(s) ==
    LET commas == {i \in 1..Len(s) : s[i] = ","}
    IN  IF commas = {} THEN s
        ELSE SubSeq(s, 1, (CHOOSE i \in commas : \A j \in commas : i <= j) - 1)

\* The role of the identity: mapped from the first Azure role when there is
\* a role claim, otherwise the stored role (or 'viewer').
IdentityRole(storedRole, rolesClaim) ==
    IF rolesClaim = Empty
    THEN IF storedRole # "" THEN storedRole ELSE "viewer"
    ELSE LET azureRole == Lower(SplitFirst(rolesClaim))
         IN  IF Includes(azureRole, <<"a", "d", "m", "i", "n">>) THEN "admin"
             ELSE IF Includes(azureRole, <<"e", "d", "i", "t", "o", "r">>) THEN "editor"
             ELSE IF Includes(azureRole, <<"a", "u", "t", "h", "o", "r">>) THEN "author"
             ELSE "viewer"

\* usersRepository.findOne({ where: [{ authKey }, { email }] }): the rows
\* that satisfy the OR; the query has no ORDER BY, any one of them can come back.
FindByKeyOrEmail(authKey, email) ==
    {u \in DOMAIN usersDb : usersDb[u].authKey = authKey \/ usersDb[u].email = email}

\* usersRepository.findOne({ where: { email } })
FindByEmail(email) == {u \in DOMAIN usersDb : usersDb[u].email = email}

NoIdentity == [userId |-> NoUser, email |-> "", role |-> "", authKey |-> "", authType |-> "none"]

\* The object validate() returns.
AzureIdentity(user, rolesClaim) ==
    [userId |-> user.id, email |-> user.email,
     role |-> IdentityRole(user.role, rolesClaim),
     authKey |-> user.authKey, authType |-> "azure-easy-auth"]

\* request.user as the JWT strategy sets it: the claims of the token, which
\* was issued to u1.
JwtIdentity ==
    [userId |-> "u1", email |-> "e1", role |-> "editor", authKey |-> "", authType |-> "jwt"]

NoLoadedUser == [id |-> NoUser, email |-> "", role |-> "", authKey |-> "", blocked |-> FALSE]
LoadUser(u) ==
    [id |-> u, email |-> usersDb[u].email, role |-> usersDb[u].role,
     authKey |-> usersDb[u].authKey, blocked |-> usersDb[u].blocked]

IdleAuthCall ==
    [pc |-> "idle", header |-> HeaderAbsent, bearer |-> "none", user |-> NoLoadedUser,
     azure |-> "none", jwtInvoked |-> FALSE]

NoAuthResult ==
    [op |-> "none", header |-> HeaderAbsent, bearer |-> "none", outcome |-> "none",
     error |-> "none", identity |-> NoIdentity, sessionId |-> NoSessionId,
     azure |-> "none", jwtInvoked |-> FALSE]

AuthResult(c, outcome, error, identity, sessionId, azure, jwtInvoked) ==
    [op |-> "canActivate", header |-> c.header, bearer |-> c.bearer, outcome |-> outcome,
     error |-> error, identity |-> identity, sessionId |-> sessionId,
     azure |-> azure, jwtInvoked |-> jwtInvoked]

\* The exception validate() throws for each of its failures: every one is an
\* UnauthorizedException (HTTP 401).
ExceptionOf(error) ==
    IF error \in {"InvalidPrincipal", "MissingIdentifier", "UserNotFound", "Blocked"}
    THEN "Unauthorized" ELSE "none"

\* Mutant of GuardStopsAfterAzure: with a bearer token present the guard
\* goes on to the JWT strategy even after the platform strategy succeeded.
GuardStopsAfterAzure_PreferJwt(azureResult, hasJwtToken) == azureResult /\ ~hasJwtToken

\* CombinedAuthGuard.canActivate: if (azureResult) return true
GuardStopsAfterAzure(azureResult, hasJwtToken) == azureResult

\* CombinedAuthGuard.canActivate from "Fall back to JWT authentication" on,
\* to the await of jwtAuthGuard.canActivate.
FallBackToJwt(r, c, azure) ==
    IF HasJwtToken(c.bearer)
    THEN /\ acalls' = [acalls EXCEPT ![r] =
                          [c EXCEPT !.pc = "jwt", !.azure = azure, !.jwtInvoked = TRUE]]
         /\ UNCHANGED lastAuth
    ELSE /\ lastAuth' = AuthResult(c, "error", "NoCredentials", NoIdentity, NoSessionId, azure, FALSE)
         /\ acalls' = [acalls EXCEPT ![r] = IdleAuthCall]

\* Mutant of AzureThrows: the platform failure is rethrown even when a bearer
\* token is present.
AzureThrows_AlwaysRethrow(r, c, error) ==
    /\ lastAuth' = AuthResult(c, "error", error, NoIdentity, NoSessionId, error, FALSE)
    /\ acalls' = [acalls EXCEPT ![r] = IdleAuthCall]
    /\ UNCHANGED <<sessions, sessionSeq>>

\* validate() throws UnauthorizedException(error): AzureEasyAuthGuard
\* rethrows it, and the catch of CombinedAuthGuard rethrows it when there is
\* no bearer token and falls through to JWT otherwise.
AzureThrows(r, c, error) ==
    /\ IF ~HasJwtToken(c.bearer)
       THEN /\ lastAuth' = AuthResult(c, "error", error, NoIdentity, NoSessionId, error, FALSE)
            /\ acalls' = [acalls EXCEPT ![r] = IdleAuthCall]
       ELSE FallBackToJwt(r, c, error)
    /\ UNCHANGED <<sessions, sessionSeq>>

\* validate() returns the identity of user: AzureEasyAuthGuard creates the
\* session and returns true, and so does CombinedAuthGuard.
AzureReturns(r, c, user) ==
    \E random \in RandomParts :
        LET identity == AzureIdentity(user, c.header.roles)
            sessionId == GenerateSessionId(now, random)
        IN  /\ sessionSeq' = sessionSeq + 1
            /\ sessions' = SessionsSet(sessions, sessionId,
                                       NewSession(identity, sessionSeq + 1, now))
            /\ IF GuardStopsAfterAzure(TRUE, HasJwtToken(c.bearer))
               THEN /\ lastAuth' = AuthResult(c, "ok", "none", identity, sessionId, "ok", FALSE)
                    /\ acalls' = [acalls EXCEPT ![r] = IdleAuthCall]
               ELSE FallBackToJwt(r, c, "ok")

\* validate() once a user row has been found: the blocked check, the
\* authKey update (to the await of save) and the return.
UserLoaded(r, c, user) ==
    IF user.blocked
    THEN AzureThrows(r, c, "Blocked") /\ UNCHANGED usersDb
    ELSE IF user.authKey = "" /\ PrincipalAuthKey(c.header) # ""
    THEN /\ acalls' = [acalls EXCEPT ![r] =
                          [c EXCEPT !.pc = "save",
                                    !.user = [user EXCEPT !.authKey = PrincipalAuthKey(c.header)]]]
         /\ UNCHANGED <<usersDb, sessions, sessionSeq, lastAuth>>
    ELSE AzureReturns(r, c, user) /\ UNCHANGED usersDb

\* CombinedAuthGuard.canActivate(context), to its first await.
CanActivate(r, header, bearer) ==
    LET c == [IdleAuthCall EXCEPT !.header = header, !.bearer = bearer]
    IN  /\ acalls[r].pc = "idle"
        /\ authStarted < MaxAuthCalls
        /\ authStarted' = authStarted + 1
        /\ UNCHANGED usersDb
        /\ IF HasAzureHeader(header)
           THEN IF header = HeaderMalformed
                THEN AzureThrows(r, c, "InvalidPrincipal")
                ELSE IF PrincipalEmail(header) = "" /\ PrincipalAuthKey(header) = ""
                THEN AzureThrows(r, c, "MissingIdentifier")
                ELSE /\ acalls' = [acalls EXCEPT ![r] = [c EXCEPT !.pc = "findByKeyOrEmail"]]
                     /\ UNCHANGED <<sessions, sessionSeq, lastAuth>>
           ELSE FallBackToJwt(r, c, "none") /\ UNCHANGED <<sessions, sessionSeq>>

\* validate() after the first findOne has settled.
ValidateFindByKeyOrEmail(r) ==
    LET c == acalls[r]
        rows == FindByKeyOrEmail(PrincipalAuthKey(c.header), PrincipalEmail(c.header))
    IN  /\ c.pc = "findByKeyOrEmail"
        /\ UNCHANGED authStarted
        /\ IF rows # {}
           THEN \E u \in rows : UserLoaded(r, c, LoadUser(u))
           ELSE IF PrincipalEmail(c.header) # ""
           THEN /\ acalls' = [acalls EXCEPT ![r] = [c EXCEPT !.pc = "findByEmail"]]
                /\ UNCHANGED <<usersDb, sessions, sessionSeq, lastAuth>>
           ELSE AzureThrows(r, c, "UserNotFound") /\ UNCHANGED usersDb

\* validate() after the second findOne (by email) has settled.
ValidateFindByEmail(r) ==
    LET c == acalls[r]
        rows == FindByEmail(PrincipalEmail(c.header))
    IN  /\ c.pc = "findByEmail"
        /\ UNCHANGED authStarted
        /\ IF rows # {}
           THEN \E u \in rows : UserLoaded(r, c, LoadUser(u))
           ELSE AzureThrows(r, c, "UserNotFound") /\ UNCHANGED usersDb

\* validate() after usersRepository.save(user) has settled.
ValidateSaved(r) ==
    LET c == acalls[r]
    IN  /\ c.pc = "save"
        /\ UNCHANGED authStarted
        /\ usersDb' = [usersDb EXCEPT ![c.user.id].authKey = c.user.authKey]
        /\ AzureReturns(r, c, c.user)

\* CombinedAuthGuard.canActivate after jwtAuthGuard.canActivate has settled.
JwtSettles(r) ==
    LET c == acalls[r]
    IN  /\ c.pc = "jwt"
        /\ UNCHANGED <<authStarted, usersDb, sessions, sessionSeq>>
        /\ acalls' = [acalls EXCEPT ![r] = IdleAuthCall]
        /\ lastAuth' =
              IF c.bearer = "valid"
              THEN AuthResult(c, "ok", "none", JwtIdentity, NoSessionId, c.azure, TRUE)
              ELSE IF ~HasAzureHeader(c.header)
              THEN AuthResult(c, "error", "JwtInvalid", NoIdentity, NoSessionId, c.azure, TRUE)
              ELSE AuthResult(c, "error", "AuthenticationFailed", NoIdentity, NoSessionId, c.azure, TRUE)

AuthInit ==
    /\ usersDb \in UserTables
    /\ sessions = << >>
    /\ sessionSeq = 0
    /\ acalls = [r \in Requests |-> IdleAuthCall]
    /\ authStarted = 0
    /\ lastAuth = NoAuthResult

\* The users table and the registry before any request, in one fixed database.
AuthIdle ==
    /\ usersDb = [u \in UserIds |->
                     [email |-> UserEmails[u], role |-> UserRoles[u],
                      authKey |-> "", blocked |-> FALSE]]
    /\ sessions = << >>
    /\ sessionSeq = 0
    /\ acalls = [r \in Requests |-> IdleAuthCall]
    /\ authStarted = 0
    /\ lastAuth = NoAuthResult

(***************************************************************************)
(* SessionService operations and AuthService.login / logout.               *)
(***************************************************************************)
\* The calls of login and validateSession that can be in flight at once.
SessionCallers == {"p1", "p2"}

\* Every id generateSessionId can return at the current time.
SessionIds == {GenerateSessionId(now, random) : random \in RandomParts}

\* The login requests: a user with the right password or a wrong one.
Logins ==
    { [userId |-> "u1", passwordOk |-> TRUE], [userId |-> "u2", passwordOk |-> TRUE],
      [userId |-> "u1", passwordOk |-> FALSE] }

\* The users an administrator blocks or deletes while sessions are in use.
Removable == {"u1"}

NoSessionData == NewSession(NoIdentity, 0, 0)

\* getUserSessions(userId), as the set of ids of the sessions it returns.
GetUserSessions(map, userId) == {id \in DOMAIN map : map[id].userId = userId}

\* getSession: the registry after the lastAccessedAt refresh.
TouchSession(map, sessionId, t) ==
    IF sessionId \in DOMAIN map
    THEN SessionsSet(map, sessionId, [map[sessionId] EXCEPT !.lastAccessedAt = t])
    ELSE map

\* The forEach of destroyUserSessions: each of the k iterations deletes the
\* first entry whose userId is the user's, if there is one.
RECURSIVE DeleteFirstOfUser(_, _, _)
DeleteFirstOfUser(map, userId, k) ==
    LET hits == GetUserSessions(map, userId)
    IN  IF k = 0 \/ hits = {} THEN map
        ELSE DeleteFirstOfUser(SessionsDelete(map, CHOOSE id \in hits : TRUE), userId, k - 1)

\* Mutant of DestroyUserSessionsMap: only one session of the user is deleted.
DestroyUserSessionsMap_OnlyFirst(map, userId) == DeleteFirstOfUser(map, userId, 1)

\* destroyUserSessions(userId): the registry it leaves.
DestroyUserSessionsMap(map, userId) ==
    DeleteFirstOfUser(map, userId, Cardinality(GetUserSessions(map, userId)))

IdleSessionCall ==
    [pc |-> "idle", op |-> "none", sessionId |-> NoSessionId, userId |-> NoUser,
     passwordOk |-> FALSE, session |-> NoSessionData, user |-> NoLoadedUser]

NoSessionResult ==
    [op |-> "none", userId |-> NoUser, outcome |-> "none", count |-> 0]

\* What a finished operation returned: a session ("session"), null ("none"),
\* a boolean, a count, or the error it threw.
SessionResult(op, userId, outcome, count) ==
    [op |-> op, userId |-> userId, outcome |-> outcome, count |-> count]

\* AuthService.login(loginDto), to the point where the database has answered
\* findOne: nothing else happens before, so the call is taken to start there.
LoginStart(p, userId, passwordOk) ==
    /\ scalls[p].pc = "idle"
    /\ sessionSeq < MaxSessions
    /\ scalls' = [scalls EXCEPT ![p] =
                     [IdleSessionCall EXCEPT !.pc = "resume", !.op = "login",
                                             !.userId = userId, !.passwordOk = passwordOk,
                                             !.user = IF userId \in DOMAIN usersDb
                                                      THEN LoadUser(userId) ELSE NoLoadedUser]]
    /\ UNCHANGED <<usersDb, sessions, sessionSeq, evicted, lastSession>>

\* The database answers the findOne of a validateSession call.
FindOneSettles(p) ==
    LET c == scalls[p]
        user == IF c.userId \in DOMAIN usersDb THEN LoadUser(c.userId) ELSE NoLoadedUser
    IN  /\ c.pc = "query"
        /\ scalls' = [scalls EXCEPT ![p] = [c EXCEPT !.pc = "resume", !.user = user]]
        /\ UNCHANGED <<usersDb, sessions, sessionSeq, evicted, lastSession>>

\* AuthService.login after findOne: the password and blocked checks, then
\* createSession.
LoginResume(p) ==
    LET c == scalls[p]
        userData == [userId |-> c.user.id, email |-> c.user.email, role |-> c.user.role,
                     authKey |-> "", authType |-> "jwt"]
    IN  /\ c.pc = "resume" /\ c.op = "login"
        /\ scalls' = [scalls EXCEPT ![p] = IdleSessionCall]
        /\ UNCHANGED <<usersDb, evicted>>
        /\ IF c.user.id = NoUser \/ ~c.passwordOk
           THEN /\ lastSession' = SessionResult("login", NoUser,
                                                "InvalidCredentials", 0)
                /\ UNCHANGED <<sessions, sessionSeq>>
           ELSE IF c.user.blocked
           THEN /\ lastSession' = SessionResult("login", NoUser,
                                                "Blocked", 0)
                /\ UNCHANGED <<sessions, sessionSeq>>
           ELSE \E random \in RandomParts :
                   LET sessionId == GenerateSessionId(now, random)
                       session == NewSession(userData, sessionSeq + 1, now)
                   IN  /\ sessionSeq' = sessionSeq + 1
                       /\ sessions' = SessionsSet(sessions, sessionId, session)
                       /\ lastSession' = SessionResult("login", NoUser,
                                                       "session", 0)

\* getSession(sessionId)
GetSession(sessionId) ==
    /\ sessions' = TouchSession(sessions, sessionId, now)
    /\ lastSession' =
          IF sessionId \in DOMAIN sessions
          THEN SessionResult("getSession", NoUser,
                             "session", 0)
          ELSE SessionResult("getSession", NoUser, "none", 0)
    /\ UNCHANGED <<usersDb, sessionSeq, scalls, evicted>>

\* validateSession(sessionId), to the await of findOne.
ValidateSessionStart(p, sessionId) ==
    /\ scalls[p].pc = "idle"
    /\ sessions' = TouchSession(sessions, sessionId, now)
    /\ IF sessionId \in DOMAIN sessions
       THEN /\ scalls' = [scalls EXCEPT ![p] =
                             [IdleSessionCall EXCEPT !.pc = "query", !.op = "validateSession",
                                                     !.sessionId = sessionId,
                                                     !.userId = sessions[sessionId].userId,
                                                     !.session = sessions'[sessionId]]]
            /\ UNCHANGED lastSession
       ELSE /\ lastSession' = SessionResult("validateSession", NoUser, "none", 0)
            /\ UNCHANGED scalls
    /\ UNCHANGED <<usersDb, sessionSeq, evicted>>

\* The session object a suspended validateSession holds: the registry entry
\* while that object is still registered, else the object as it was left.
HeldSession(c) ==
    IF c.sessionId \in DOMAIN sessions /\ sessions[c.sessionId].obj = c.session.obj
    THEN sessions[c.sessionId]
    ELSE c.session

\* Mutant of RefreshRole: the session keeps the role it was created with.
RefreshRole_Keep(session, user) == session

\* session.role = user.role
RefreshRole(session, user) == [session EXCEPT !.role = user.role]

\* validateSession after findOne.
ValidateSessionResume(p) ==
    LET c == scalls[p]
        session == RefreshRole(HeldSession(c), c.user)
    IN  /\ c.pc = "resume" /\ c.op = "validateSession"
        /\ scalls' = [scalls EXCEPT ![p] = IdleSessionCall]
        /\ UNCHANGED <<usersDb, sessionSeq>>
        /\ IF c.user.id = NoUser \/ c.user.blocked
           THEN /\ sessions' = SessionsDelete(sessions, c.sessionId)
                /\ evicted' = evicted \cup {c.session.obj}
                /\ lastSession' = SessionResult("validateSession", NoUser,
                                                "none", 0)
           ELSE /\ sessions' = SessionsSet(sessions, c.sessionId, session)
                /\ UNCHANGED evicted
                /\ lastSession' = SessionResult("validateSession", NoUser,
                                                "session", 0)

\* destroySession(sessionId)
DestroySession(sessionId) ==
    /\ sessions' = SessionsDelete(sessions, sessionId)
    /\ lastSession' = SessionResult("destroySession", NoUser,
                                    IF sessionId \in DOMAIN sessions THEN "true" ELSE "false", 0)
    /\ UNCHANGED <<usersDb, sessionSeq, scalls, evicted>>

\* AuthService.logout(userId): destroyUserSessions(userId)
Logout(userId) ==
    /\ sessions' = DestroyUserSessionsMap(sessions, userId)
    /\ lastSession' = SessionResult("destroyUserSessions", userId, "count", Cardinality(GetUserSessions(sessions, userId)))
    /\ UNCHANGED <<usersDb, sessionSeq, scalls, evicted>>

\* A user row is marked blocked.
BlockUser(userId) ==
    /\ userId \in DOMAIN usersDb
    /\ ~usersDb[userId].blocked
    /\ usersDb' = [usersDb EXCEPT ![userId].blocked = TRUE]
    /\ UNCHANGED <<sessions, sessionSeq, scalls, evicted, lastSession>>

\* A user row is deleted.
DeleteUser(userId) ==
    /\ userId \in DOMAIN usersDb
    /\ usersDb' = [u \in (DOMAIN usersDb) \ {userId} |-> usersDb[u]]
    /\ UNCHANGED <<sessions, sessionSeq, scalls, evicted, lastSession>>

\* The role column of a user row is changed.
NewRoles == {"admin"}

ChangeRole(userId, role) ==
    /\ userId \in DOMAIN usersDb
    /\ usersDb[userId].role # role
    /\ usersDb' = [usersDb EXCEPT ![userId].role = role]
    /\ UNCHANGED <<sessions, sessionSeq, scalls, evicted, lastSession>>

\* const maxAge = 24 * 60 * 60 * 1000
MaxAgeMs == DayMs

\* Mutant of ExpiredSessions: a session exactly 24 hours idle is expired too.
ExpiredSessions_Inclusive(map, t) ==
    {id \in DOMAIN map : t - map[id].lastAccessedAt >= MaxAgeMs}

\* The sessions the sweep deletes: age > maxAge.
ExpiredSessions(map, t) ==
    {id \in DOMAIN map : t - map[id].lastAccessedAt > MaxAgeMs}

\* cleanupExpiredSessions()
CleanupExpiredSessions ==
    LET expired == ExpiredSessions(sessions, now)
    IN  /\ sessions' = [id \in (DOMAIN sessions) \ expired |-> sessions[id]]
        /\ lastSession' = SessionResult("cleanupExpiredSessions", NoUser, "count",
                                        Cardinality(expired))
        /\ UNCHANGED <<usersDb, sessionSeq, scalls, evicted>>

\* A day passes.
DayPasses ==
    /\ now < MaxDays * DayMs
    /\ now' = now + DayMs
    /\ UNCHANGED <<jwtCache, apiTokens, pcalls, issued, lastProxy>>

SessionInit ==
    /\ usersDb = [u \in UserIds |->
                     [email |-> UserEmails[u], role |-> UserRoles[u],
                      authKey |-> "", blocked |-> FALSE]]
    /\ sessions = << >>
    /\ sessionSeq = 0
    /\ acalls = [r \in Requests |-> IdleAuthCall]
    /\ authStarted = 0
    /\ lastAuth = NoAuthResult
    /\ scalls = [p \in SessionCallers |-> IdleSessionCall]
    /\ evicted = {}
    /\ lastSession = NoSessionResult

SessionIdle ==
    /\ scalls = [p \in SessionCallers |-> IdleSessionCall]
    /\ evicted = {}
    /\ lastSession = NoSessionResult

(***************************************************************************)
(* AuditService: the content audit log and the ownership check.            *)
(***************************************************************************)
\* A row of content_audit_log; customUserId "" stands for null.  The rows
\* are kept in the order of their timestamp column.
AuditEntry(contentId, action, customUserId) ==
    [contentId |-> contentId, action |-> action, customUserId |-> customUserId]

\* The operations that get logged.
AuditInputs ==
    { AuditEntry("d1", "created", "u1"), AuditEntry("d1", "created", "u2"),
      AuditEntry("d1", "updated", "u2"), AuditEntry("d1", "deleted", "u1"),
      AuditEntry("1", "created", "u2"), AuditEntry("d1", "created", "") }

ContentIds == {"d1", "1"}
AuditUsers == {"u1", "u2", ""}

\* The positions of the 'created' rows of a content id.
CreatedRows(log, contentId) ==
    {i \in 1..Len(log) : log[i].contentId = contentId /\ log[i].action = "created"}

\* Mutant of GetContentCreator: the latest 'created' row decides.
GetContentCreator_Latest(log, contentId, dbOk) ==
    LET rows == CreatedRows(log, contentId)
    IN  IF ~dbOk \/ rows = {} THEN ""
        ELSE log[CHOOSE i \in rows : \A j \in rows : j <= i].customUserId

\* getContentCreator(contentId): the customUserId of the first 'created' row
\* by timestamp, null when there is none or when the query fails.
GetContentCreator(log, contentId, dbOk) ==
    LET rows == CreatedRows(log, contentId)
    IN  IF ~dbOk \/ rows = {} THEN ""
        ELSE log[CHOOSE i \in rows : \A j \in rows : i <= j].customUserId

\* isContentOwner(contentId, customUserId)
IsContentOwner(log, contentId, customUserId, dbOk) ==
    IF customUserId = "" THEN FALSE
    ELSE GetContentCreator(log, contentId, dbOk) = customUserId

NoAuditResult ==
    [op |-> "none", contentId |-> "", customUserId |-> "", dbOk |-> TRUE, result |-> FALSE]

\* logOperation(data): the row is inserted, or the save fails and null is
\* returned.
\* Mutant of SaveAuditRow: the save overwrites the rows of the same content.
SaveAuditRow_Upsert(log, row) ==
    IF \E i \in 1..Len(log) : log[i].contentId = row.contentId
    THEN [i \in 1..Len(log) |-> IF log[i].contentId = row.contentId THEN row ELSE log[i]]
    ELSE Append(log, row)

\* auditLogRepository.save(auditLogRepository.create({...})): the entity is
\* new and its id generated, so the save is an INSERT.
SaveAuditRow(log, row) == Append(log, row)

LogOperation(data, dbOk) ==
    /\ Len(auditLog) < MaxAuditEntries
    /\ auditLog' = IF dbOk THEN SaveAuditRow(auditLog, data) ELSE auditLog
    /\ lastAudit' = [op |-> "logOperation", contentId |-> data.contentId,
                     customUserId |-> data.customUserId, dbOk |-> dbOk, result |-> dbOk]

\* A call of isContentOwner(contentId, customUserId).
CheckContentOwner(contentId, customUserId, dbOk) ==
    /\ lastAudit' = [op |-> "isContentOwner", contentId |-> contentId,
                     customUserId |-> customUserId, dbOk |-> dbOk,
                     result |-> IsContentOwner(auditLog, contentId, customUserId, dbOk)]
    /\ UNCHANGED auditLog

AuditInit ==
    /\ auditLog = << >>
    /\ lastAudit = NoAuditResult

AuditIdle == AuditInit

(***************************************************************************)
(* ContentService item operations: how an upstream failure is reported.    *)
(***************************************************************************)
\* What one forwarded call can come back with: a response, an error
\* response with a status, or no response at all.
UpstreamFailures == {"404", "403", "none"}
UpstreamResults == {"ok"} \cup UpstreamFailures
\* The documentId filter query can also succeed with an empty list.
FilterResults == UpstreamResults \cup {"empty"}

ItemRoles == {"viewer", "author", "editor"}
ServiceOps == {"list", "get", "create", "update", "delete"}

\* extractStrapiError: statusCode = error.response.status || 500
ExtractStatus(r) == IF r = "404" THEN 404 ELSE IF r = "403" THEN 403 ELSE 500

\* tries: the results of the upstream calls the operation made, in order.
ServiceResult(outcome, status, tries) ==
    [outcome |-> outcome, status |-> status, tries |-> tries]

\* handleStrapiError(error, ...): throws HttpException(message, statusCode).
HandleStrapiError(r, tries) == ServiceResult("exception", ExtractStatus(r), tries)

\* getPluralName threw its plain Error: nothing is forwarded.
PluralNameError == ServiceResult("exception", 500, << >>)

\* getContentItem after getPluralName.
GetContentItem(r1, r2, r3) ==
    IF r1 = "ok" THEN ServiceResult("ok", 200, <<r1>>)
    ELSE IF r1 = "404"
         THEN IF r2 = "ok" THEN ServiceResult("ok", 200, <<r1, r2>>)
              ELSE IF r3 = "ok" THEN ServiceResult("ok", 200, <<r1, r2, r3>>)
              ELSE ServiceResult("exception", 404, <<r1, r2, r3>>)
         ELSE HandleStrapiError(r1, <<r1>>)

\* getContentItems / createContentItem / updateContentItem /
\* deleteContentItem after getPluralName: one forwarded call.
ForwardItem(r1) ==
    IF r1 = "ok" THEN ServiceResult("ok", 200, <<r1>>)
    ELSE HandleStrapiError(r1, <<r1>>)

ItemService(op, plural, r1, r2, r3) ==
    IF ~plural THEN PluralNameError
    ELSE IF op = "get" THEN GetContentItem(r1, r2, r3)
    ELSE ForwardItem(r1)

\* contentService.duplicateContentItem: one forwarded POST.
DuplicateContentItem(plural, r1) ==
    IF ~plural THEN PluralNameError ELSE ForwardItem(r1)

\* The results of calls an operation never makes are pinned to "ok", so
\* that each run of an operation is enumerated once.
OnlyCallsMade(op, plural, r1, r2, r3) ==
    /\ ~plural => r1 = "ok"
    /\ (op # "get" \/ r1 # "404") => r2 = "ok"
    /\ (op # "get" \/ r1 # "404" \/ r2 = "ok") => r3 = "ok"

NoServiceResult ==
    [op |-> "none", userRole |-> "", outcome |-> "", status |-> 0, tries |-> << >>]

\* One call of a ContentService item operation.
ServiceCall(op, userRole, plural, r1, r2, r3) ==
    LET res == ItemService(op, plural, r1, r2, r3)
    IN  /\ OnlyCallsMade(op, plural, r1, r2, r3)
        /\ lastService' = [op |-> op, userRole |-> userRole, outcome |-> res.outcome,
                           status |-> res.status, tries |-> res.tries]
        /\ UNCHANGED <<icall, lastItem, pendingAudit>>

(***************************************************************************)
(* ContentController: the mutating routes.                                 *)
(***************************************************************************)
ItemRequest(op, role, userId, id) ==
    [op |-> op, role |-> role, userId |-> userId, id |-> id]

\* The requests that arrive, already authenticated by JwtAuthGuard.
ItemRequests ==
    { ItemRequest("create", "editor", "u1", ""), ItemRequest("create", "author", "u1", ""),
      ItemRequest("create", "viewer", "u2", ""),
      ItemRequest("update", "author", "u1", "d1"), ItemRequest("update", "author", "u2", "d1"),
      ItemRequest("update", "author", "u1", "1"), ItemRequest("update", "viewer", "u2", "d1"),
      ItemRequest("delete", "author", "u1", "d1"), ItemRequest("delete", "author", "u2", "d1"),
      ItemRequest("delete", "editor", "u1", "d1"),
      ItemRequest("duplicate", "author", "u2", "d1"), ItemRequest("duplicate", "viewer", "u2", "d1") }

NoItemRequest == ItemRequest("none", "", "", "")

\* The guards of the class: @UseGuards(JwtAuthGuard), RolesGuard not among
\* them.
RolesGuardApplied == FALSE

\* @Roles(...) of each mutating content route and of GET sessions/stats.
RequiredRoles(op) ==
    IF op = "delete" THEN {"admin", "author"}
    ELSE IF op = "stats" THEN {"admin"}
    ELSE {"admin", "editor", "author"}

\* RolesGuard.normalizeRole
NormalizeRole(role) ==
    IF RoleToLower(role) \in {"super admin", "superadmin"} THEN "admin" ELSE RoleToLower(role)

\* Mutant of RolesGuardAllows: the guard lets every role through.
RolesGuardAllows_Any(op, role) == TRUE

\* RolesGuard.canActivate: user?.role?.toLowerCase() || 'viewer', normalized,
\* must be among the normalized required roles.
RolesGuardAllows(op, role) ==
    NormalizeRole(IF role = "" THEN "viewer" ELSE RoleToLower(role))
        \in {NormalizeRole(required) : required \in RequiredRoles(op)}

\* userRole.toLowerCase() === 'author' && customUserId
IsAuthorCheck(req) == req.role = "author" /\ req.userId # ""

\* data.documentId of the item a route id addresses.
DocumentIdOf(id) == IF id = "1" THEN "d1" ELSE id

\* documentId of a newly created item; rows: the audit rows written or
\* handed over so far.
NewContentId(rows) == IF CreatedRows(rows, "d1") = {} THEN "d1" ELSE "d2"

\* checked: "true" when isContentOwner returned true for this request;
\* fetched: how the getContentItem before the check ended.
ItemCall(pc, req, checked, fetched, contentId) ==
    [pc |-> pc, req |-> req, checked |-> checked, fetched |-> fetched,
     contentId |-> contentId]

IdleItemCall == ItemCall("idle", NoItemRequest, "no", "no", "")

\* forwarded: the mutating call was sent upstream.
ItemResult(c, outcome, status, forwarded) ==
    [op |-> c.req.op, role |-> c.req.role, checked |-> c.checked,
     fetched |-> c.fetched, outcome |-> outcome, status |-> status,
     forwarded |-> forwarded]

NoItemResult == ItemResult(IdleItemCall, "", 0, FALSE)

\* The handler up to its first await.
ItemStart(req) ==
    /\ icall.pc = "idle"
    /\ Len(auditLog) + Len(pendingAudit) < MaxItemWrites
    /\ IF RolesGuardApplied /\ ~RolesGuardAllows(req.op, req.role)
       THEN /\ lastItem' = ItemResult(ItemCall("idle", req, "no", "no", req.id),
                                      "forbidden", 403, FALSE)
            /\ UNCHANGED icall
       ELSE /\ icall' = IF req.op = "delete"
                           \/ (req.op \in {"update", "duplicate"} /\ IsAuthorCheck(req))
                        THEN ItemCall("prefetch", req, "no", "no", req.id)
                        ELSE ItemCall("forward", req, "no", "no", req.id)
            /\ UNCHANGED lastItem
    /\ UNCHANGED <<auditLog, lastAudit, lastService, pendingAudit>>

\* getContentItem settles, then the ownership check.
PrefetchSettles(plural, r1, r2, r3, dbOk) ==
    /\ icall.pc = "prefetch"
    /\ OnlyCallsMade("get", plural, r1, r2, r3)
    /\ LET req == icall.req
           got == ItemService("get", plural, r1, r2, r3).outcome = "ok"
           cid == IF got THEN DocumentIdOf(req.id) ELSE req.id
           mustCheck == IsAuthorCheck(req) /\ (req.op # "delete" \/ got)
           isOwner == IsContentOwner(auditLog, cid, req.userId, dbOk)
           fetched == IF got THEN "ok" ELSE "failed"
       IN  IF mustCheck /\ ~isOwner
           THEN /\ lastItem' = ItemResult(ItemCall("idle", req, "no", fetched, cid),
                                          "forbidden", 403, FALSE)
                /\ icall' = IdleItemCall
           ELSE /\ icall' = ItemCall("forward", req,
                                     IF mustCheck THEN "true" ELSE "no", fetched, cid)
                /\ UNCHANGED lastItem
    /\ UNCHANGED <<auditLog, lastAudit, lastService, pendingAudit>>

\* The row the handler logs after a successful mutation.
AuditRowOf(c, rows) ==
    IF c.req.op = "create" THEN AuditEntry(NewContentId(rows), "created", c.req.userId)
    ELSE IF c.req.op = "update" THEN AuditEntry(DocumentIdOf(c.req.id), "updated", c.req.userId)
    ELSE AuditEntry(c.contentId, "deleted", c.req.userId)

\* The mutating service call settles; after a success the audit row is
\* handed to logOperation without being awaited, and the response returned.
ForwardSettles(plural, r1) ==
    /\ icall.pc = "forward"
    /\ OnlyCallsMade(icall.req.op, plural, r1, "ok", "ok")
    /\ LET res == IF icall.req.op = "duplicate"
                  THEN DuplicateContentItem(plural, r1)
                  ELSE ItemService(icall.req.op, plural, r1, "ok", "ok")
       IN  /\ lastItem' = ItemResult(icall, res.outcome, res.status, plural)
           /\ pendingAudit' = IF res.outcome = "ok" /\ icall.req.op # "duplicate"
                              THEN Append(pendingAudit,
                                          AuditRowOf(icall, auditLog \o pendingAudit))
                              ELSE pendingAudit
    /\ icall' = IdleItemCall
    /\ UNCHANGED <<auditLog, lastAudit, lastService>>

\* Mutant of AfterAuditWrite: a failed audit write fails the request.
AfterAuditWrite_Propagate(result, saved) ==
    IF saved THEN result ELSE [result EXCEPT !.outcome = "exception", !.status = 500]

\* What the settled logOperation call does to the response of the request
\* that started it: logOperation returns the row or null, the handler's
\* .catch only logs.
AfterAuditWrite(result, saved) == result

RemoveAt(seq, i) == SubSeq(seq, 1, i - 1) \o SubSeq(seq, i + 1, Len(seq))

\* The save of a pending logOperation call settles: the row is inserted, or
\* the save fails and logOperation returns null.
AuditWriteSettles(i, saved) ==
    /\ i \in 1..Len(pendingAudit)
    /\ auditLog' = IF saved THEN SaveAuditRow(auditLog, pendingAudit[i]) ELSE auditLog
    /\ pendingAudit' = RemoveAt(pendingAudit, i)
    /\ lastItem' = AfterAuditWrite(lastItem, saved)
    /\ UNCHANGED <<icall, lastAudit, lastService>>

ItemInit ==
    /\ lastService = NoServiceResult
    /\ icall = IdleItemCall
    /\ lastItem = NoItemResult
    /\ pendingAudit = << >>

ItemIdle == ItemInit

(***************************************************************************)
(* AuthController: GET /api/auth/sessions/stats.                           *)
(***************************************************************************)
\* Who asks: authenticated says whether CombinedAuthGuard let the request
\* through, role is request.user.role ("" when the identity carries none).
StatsCaller(authenticated, role) == [authenticated |-> authenticated, role |-> role]

StatsCallers ==
    {StatsCaller(FALSE, "")} \cup
    {StatsCaller(TRUE, role) : role \in {"admin", "Super Admin", "editor", "Viewer", ""}}

\* Mutant of GetSessionStats: activeUsers counts sessions, not users.
GetSessionStats_PerSession(map) ==
    [totalSessions |-> Cardinality(DOMAIN map), activeUsers |-> Cardinality(DOMAIN map)]

\* SessionService.getSessionStats()
GetSessionStats(map) ==
    [totalSessions |-> Cardinality(DOMAIN map),
     activeUsers |-> Cardinality({map[id].userId : id \in DOMAIN map})]

NoStats == [totalSessions |-> 0, activeUsers |-> 0]

NoStatsResult == [caller |-> StatsCaller(FALSE, ""), outcome |-> "none", stats |-> NoStats]

\* The request: @UseGuards(CombinedAuthGuard, RolesGuard), @Roles('admin'),
\* then the handler.
SessionsStats(caller) ==
    /\ lastStats' =
          IF ~caller.authenticated
          THEN [caller |-> caller, outcome |-> "Unauthorized", stats |-> NoStats]
          ELSE IF ~RolesGuardAllows("stats", caller.role)
          THEN [caller |-> caller, outcome |-> "Forbidden", stats |-> NoStats]
          ELSE [caller |-> caller, outcome |-> "ok", stats |-> GetSessionStats(sessions)]
    /\ UNCHANGED <<proxyVars, contentVars, authVars, sessionVars, auditVars, itemVars, typeVars>>

StatsIdle == lastStats = NoStatsResult

(***************************************************************************)
(* ContentService and ContentController: the content-types routes.         *)
(***************************************************************************)
\* One entry of the upstream answer as getContentType reads it: whether the
\* entry has a schema object, schema.pluralName, info.pluralName (of the
\* schema or of the entry) and info.singularName || schema.singularName.
SchemaType(apiID, hasSchema, schemaPlural, infoPlural, singularName, kind, visible) ==
    [apiID |-> apiID, hasSchema |-> hasSchema, schemaPlural |-> schemaPlural,
     infoPlural |-> infoPlural, singularName |-> singularName,
     kind |-> kind, visible |-> visible]

\* The upstream answers getContentType is run on.
SchemaCatalogs ==
    LET \* an irregular plural declared in the schema only
        irregular == SchemaType(<<"a">>, TRUE, <<"b">>, Empty, Empty, "collectionType", "unset")
        \* no plural declared anywhere
        undeclared == SchemaType(<<"b">>, TRUE, Empty, Empty, Empty, "collectionType", "unset")
        \* two declared plurals that differ
        twice == SchemaType(<<"a">>, TRUE, <<"a">>, <<"z">>, <<"A">>, "singleType", "true")
        \* an entry without a schema object
        bare == SchemaType(<<"z">>, FALSE, Empty, <<"z">>, Empty, "collectionType", "unset")
        \* hidden
        hidden == SchemaType(<<"b">>, TRUE, <<"b">>, Empty, Empty, "collectionType", "false")
    IN  { << >>, <<irregular>>, <<undeclared>>, <<twice>>, <<hidden>>,
          <<bare, irregular>>, <<irregular, bare>>, <<undeclared, irregular>>,
          <<twice, irregular>> }

\* The slugs a caller may pass; Empty stands for a missing name.
Slugs == {<<"a">>, <<"b">>, <<"z">>, Empty}

\* request.user.role as the content-types routes may see it.
TypeRoles == {"admin", "Super Admin", "editor", "viewer"}

\* Mutant of SlugMatches: the slug is compared with the apiID.
SlugMatches_ApiID(type, slug) == type.apiID = slug

\* getContentType: type.schema.pluralName === slug
SlugMatches(type, slug) == type.schemaPlural = slug

\* getContentType: filteredContentTypes.find(...).  The index of the first
\* match; 0 when there is none; -1 when an entry without a schema object
\* is reached first (reading schema.pluralName of it throws a TypeError).
RECURSIVE FindBySlug(_, _, _)
FindBySlug(types, slug, i) ==
    IF i > Len(types) THEN 0
    ELSE IF ~types[i].hasSchema THEN 0 - 1
    ELSE IF SlugMatches(types[i], slug) THEN i
    ELSE FindBySlug(types, slug, i + 1)

\* getContentType: the descriptor built from the entry found.
DescribeType(type) ==
    [name |-> type.apiID,
     singularName |-> IF type.singularName # Empty THEN type.singularName ELSE type.apiID,
     pluralName |-> IF type.infoPlural # Empty THEN type.infoPlural
                    ELSE IF type.schemaPlural # Empty THEN type.schemaPlural
                    ELSE AppendS(type.apiID)]

\* What a finished content-types request leaves behind: the calls made
\* upstream, the entries the upstream answered with, and the descriptors
\* returned.
TypesResult(op, role, slug, outcome, error, calls, response, upstream, types) ==
    [op |-> op, role |-> role, slug |-> slug, outcome |-> outcome, error |-> error,
     calls |-> calls, response |-> response, upstream |-> upstream, types |-> types]

NoTypesResult == TypesResult("none", "", Empty, "none", "none", << >>, "none", << >>, << >>)

\* ContentService.getContentType(slug, userRole) once the upstream has
\* answered: response says how (a failure, an unrecognised envelope, which
\* is read as no entries, or a list), types is the list.
GetContentTypeResult(slug, response, types) ==
    IF response = "error"
    THEN [outcome |-> "exception", error |-> "Upstream", types |-> << >>]
    ELSE LET filtered == IF response = "ok" THEN SelectSeq(types, IsListed) ELSE << >>
             i == FindBySlug(filtered, slug, 1)
         IN  IF i < 1
             THEN [outcome |-> "exception", error |-> "NotFound", types |-> << >>]
             ELSE [outcome |-> "ok", error |-> "none", types |-> <<DescribeType(filtered[i])>>]

\* Only the list of a recognised envelope is read.
OnlyTypesRead(response, types) == response # "ok" => types = << >>

\* GET /api/content-types: ContentController.getContentTypes and
\* ContentService.getContentTypes, once the upstream has answered with the
\* entries types (or failed, or answered in an unrecognised envelope).
ListContentTypes(role, response, types) ==
    /\ OnlyTypesRead(response, types)
    /\ lastTypes' =
          IF response = "error"
          THEN TypesResult("list", role, Empty, "exception", "Upstream", <<"GET">>,
                           response, << >>, << >>)
          ELSE IF response = "badShape"
          THEN TypesResult("list", role, Empty, "ok", "none", <<"GET">>, response,
                           << >>, << >>)
          ELSE TypesResult("list", role, Empty, "ok", "none", <<"GET">>, response, types,
                           MappedContentTypes(types))
    /\ UNCHANGED contentVars

\* GET /api/content-types/:slug
GetContentType(role, slug, response, types) ==
    /\ OnlyTypesRead(response, types)
    /\ LET r == GetContentTypeResult(slug, response, types)
       IN  lastTypes' = TypesResult("get", role, slug, r.outcome, r.error, <<"GET">>,
                                   response, types, r.types)
    /\ UNCHANGED contentVars

\* Mutant of IsAdminRole: editors may create content types as well.
IsAdminRole_OrEditor(userRole) == userRole \in {"admin", "editor"}

\* createContentType and createContentTypeInStrapi: userRole !== 'admin'
IsAdminRole(userRole) == userRole = "admin"

\* POST /api/content-types: ContentController.createContentType,
\* ContentService.createContentType, createContentTypeInStrapi and the
\* getContentType that follows a successful creation.
CreateContentType(role, name, created, response, types) ==
    /\ OnlyTypesRead(response, types)
    /\ (~IsAdminRole(role) \/ ~created) => (response = "ok" /\ types = << >>)
    /\ ~IsAdminRole(role) => created
    /\ lastTypes' =
          IF ~IsAdminRole(role)
          THEN TypesResult("create", role, name, "exception", "BadRequest", << >>,
                           "none", << >>, << >>)
          ELSE IF ~created
          THEN TypesResult("create", role, name, "exception", "Upstream", <<"POST">>,
                           "none", << >>, << >>)
          ELSE LET r == GetContentTypeResult(name, response, types)
               IN  TypesResult("create", role, name, r.outcome, r.error,
                               <<"POST", "GET">>, response, types, r.types)
    /\ UNCHANGED contentVars

TypesIdle == lastTypes = NoTypesResult

(***************************************************************************)
(* Specifications: one per component, the other components at rest.        *)
(***************************************************************************)
InitProxy == ProxyInit /\ ContentIdle /\ AuthIdle /\ SessionIdle /\ AuditIdle /\ ItemIdle /\ StatsIdle /\ TypesIdle
NextProxy ==
    \/ Tick /\ UNCHANGED <<contentVars, authVars, sessionVars, auditVars, itemVars, statsVars, typeVars>>
    \/ \E p \in Procs, role \in CallerRoles :
          GetProxyJWT(p, role) /\ UNCHANGED <<contentVars, authVars, sessionVars, auditVars, itemVars, statsVars, typeVars>>
    \/ \E p \in Procs : LoginSucceeds(p) /\ UNCHANGED <<contentVars, authVars, sessionVars, auditVars, itemVars, statsVars, typeVars>>
    \/ \E p \in Procs : LoginFails(p) /\ UNCHANGED <<contentVars, authVars, sessionVars, auditVars, itemVars, statsVars, typeVars>>
    \/ \E p \in Procs, url \in Urls, role \in CallerRoles :
          ForwardRequestToStrapi(p, url, role) /\ UNCHANGED <<contentVars, authVars, sessionVars, auditVars, itemVars, statsVars, typeVars>>
SpecProxy == InitProxy /\ [][NextProxy]_vars

InitContent == ContentInit /\ ProxyIdle /\ AuthIdle /\ SessionIdle /\ AuditIdle /\ ItemIdle /\ StatsIdle /\ TypesIdle
NextContent ==
    \/ \E p \in CProcs, param \in Inputs :
          GetPluralNameCheck(p, param) /\ UNCHANGED <<proxyVars, authVars, sessionVars, auditVars, itemVars, statsVars, typeVars>>
    \/ \E p \in CProcs, response \in CatalogResponses :
          GetPluralNameResume(p, response) /\ UNCHANGED <<proxyVars, authVars, sessionVars, auditVars, itemVars, statsVars, typeVars>>
SpecContent == InitContent /\ [][NextContent]_vars

InitAuth == AuthInit /\ ProxyIdle /\ ContentIdle /\ SessionIdle /\ AuditIdle /\ ItemIdle /\ StatsIdle /\ TypesIdle
NextAuth ==
    \/ \E r \in Requests, header \in Headers, bearer \in Bearers :
          CanActivate(r, header, bearer) /\ UNCHANGED <<proxyVars, contentVars, sessionVars, auditVars, itemVars, statsVars, typeVars>>
    \/ \E r \in Requests : ValidateFindByKeyOrEmail(r) /\ UNCHANGED <<proxyVars, contentVars, sessionVars, auditVars, itemVars, statsVars, typeVars>>
    \/ \E r \in Requests : ValidateFindByEmail(r) /\ UNCHANGED <<proxyVars, contentVars, sessionVars, auditVars, itemVars, statsVars, typeVars>>
    \/ \E r \in Requests : ValidateSaved(r) /\ UNCHANGED <<proxyVars, contentVars, sessionVars, auditVars, itemVars, statsVars, typeVars>>
    \/ \E r \in Requests : JwtSettles(r) /\ UNCHANGED <<proxyVars, contentVars, sessionVars, auditVars, itemVars, statsVars, typeVars>>
SpecAuth == InitAuth /\ [][NextAuth]_vars

InitSession == SessionInit /\ ProxyIdle /\ ContentIdle /\ AuditIdle /\ ItemIdle /\ StatsIdle /\ TypesIdle
NextSession ==
    \/ \E p \in SessionCallers, login \in Logins :
          LoginStart(p, login.userId, login.passwordOk) /\ UNCHANGED <<proxyVars, contentVars, acalls, authStarted, lastAuth, auditVars, itemVars, statsVars, typeVars>>
    \/ \E p \in SessionCallers :
          FindOneSettles(p) /\ UNCHANGED <<proxyVars, contentVars, acalls, authStarted, lastAuth, auditVars, itemVars, statsVars, typeVars>>
    \/ \E p \in SessionCallers :
          LoginResume(p) /\ UNCHANGED <<proxyVars, contentVars, acalls, authStarted, lastAuth, auditVars, itemVars, statsVars, typeVars>>
    \/ \E id \in SessionIds :
          GetSession(id) /\ UNCHANGED <<proxyVars, contentVars, acalls, authStarted, lastAuth, auditVars, itemVars, statsVars, typeVars>>
    \/ \E p \in SessionCallers, id \in SessionIds :
          ValidateSessionStart(p, id)
              /\ UNCHANGED <<proxyVars, contentVars, acalls, authStarted, lastAuth, auditVars, itemVars, statsVars, typeVars>>
    \/ \E p \in SessionCallers :
          ValidateSessionResume(p)
              /\ UNCHANGED <<proxyVars, contentVars, acalls, authStarted, lastAuth, auditVars, itemVars, statsVars, typeVars>>
    \/ \E id \in SessionIds :
          DestroySession(id) /\ UNCHANGED <<proxyVars, contentVars, acalls, authStarted, lastAuth, auditVars, itemVars, statsVars, typeVars>>
    \/ \E u \in UserIds :
          Logout(u) /\ UNCHANGED <<proxyVars, contentVars, acalls, authStarted, lastAuth, auditVars, itemVars, statsVars, typeVars>>
    \/ \E u \in Removable :
          BlockUser(u) /\ UNCHANGED <<proxyVars, contentVars, acalls, authStarted, lastAuth, auditVars, itemVars, statsVars, typeVars>>
    \/ \E u \in Removable :
          DeleteUser(u) /\ UNCHANGED <<proxyVars, contentVars, acalls, authStarted, lastAuth, auditVars, itemVars, statsVars, typeVars>>
SpecSession == InitSession /\ [][NextSession]_vars

\* The registry over days: one caller logging in, reading and validating
\* sessions while roles change.  Nothing in the program calls
\* cleanupExpiredSessions, so it is not among these steps.
RegistryCaller == "p1"
NextRegistry ==
    \/ \E u \in UserIds :
          LoginStart(RegistryCaller, u, TRUE)
              /\ UNCHANGED <<proxyVars, contentVars, acalls, authStarted, lastAuth, auditVars, itemVars, statsVars, typeVars>>
    \/ LoginResume(RegistryCaller)
          /\ UNCHANGED <<proxyVars, contentVars, acalls, authStarted, lastAuth, auditVars, itemVars, statsVars, typeVars>>
    \/ \E id \in DOMAIN sessions :
          GetSession(id)
              /\ UNCHANGED <<proxyVars, contentVars, acalls, authStarted, lastAuth, auditVars, itemVars, statsVars, typeVars>>
    \/ \E id \in DOMAIN sessions :
          ValidateSessionStart(RegistryCaller, id)
              /\ UNCHANGED <<proxyVars, contentVars, acalls, authStarted, lastAuth, auditVars, itemVars, statsVars, typeVars>>
    \/ FindOneSettles(RegistryCaller)
          /\ UNCHANGED <<proxyVars, contentVars, acalls, authStarted, lastAuth, auditVars, itemVars, statsVars, typeVars>>
    \/ ValidateSessionResume(RegistryCaller)
          /\ UNCHANGED <<proxyVars, contentVars, acalls, authStarted, lastAuth, auditVars, itemVars, statsVars, typeVars>>
    \/ \E u \in Removable, role \in NewRoles :
          ChangeRole(u, role)
              /\ UNCHANGED <<proxyVars, contentVars, acalls, authStarted, lastAuth, auditVars, itemVars, statsVars, typeVars>>
    \/ DayPasses
          /\ UNCHANGED <<contentVars, authVars, sessionVars, auditVars, itemVars, statsVars, typeVars>>
SpecRegistry == InitSession /\ [][NextRegistry]_vars /\ WF_now(DayPasses)

\* The content-types routes.
InitTypes == ContentIdle /\ ProxyIdle /\ AuthIdle /\ SessionIdle /\ AuditIdle /\ ItemIdle /\ StatsIdle /\ TypesIdle
NextTypes ==
    \/ \E role \in TypeRoles, response \in CatalogResponses, types \in Catalogs :
          ListContentTypes(role, response, types)
              /\ UNCHANGED <<proxyVars, authVars, sessionVars, auditVars, itemVars, statsVars>>
    \/ \E role \in TypeRoles, slug \in Slugs, response \in CatalogResponses, types \in SchemaCatalogs :
          GetContentType(role, slug, response, types)
              /\ UNCHANGED <<proxyVars, authVars, sessionVars, auditVars, itemVars, statsVars>>
    \/ \E role \in TypeRoles, name \in Slugs, created \in BOOLEAN,
           response \in CatalogResponses, types \in SchemaCatalogs :
          CreateContentType(role, name, created, response, types)
              /\ UNCHANGED <<proxyVars, authVars, sessionVars, auditVars, itemVars, statsVars>>
SpecTypes == InitTypes /\ [][NextTypes]_vars

\* The statistics route next to logins and logouts.
NextStats ==
    \/ \E u \in UserIds :
          LoginStart(RegistryCaller, u, TRUE)
              /\ UNCHANGED <<proxyVars, contentVars, acalls, authStarted, lastAuth, auditVars, itemVars, statsVars, typeVars>>
    \/ LoginResume(RegistryCaller)
          /\ UNCHANGED <<proxyVars, contentVars, acalls, authStarted, lastAuth, auditVars, itemVars, statsVars, typeVars>>
    \/ \E u \in UserIds :
          Logout(u)
              /\ UNCHANGED <<proxyVars, contentVars, acalls, authStarted, lastAuth, auditVars, itemVars, statsVars, typeVars>>
    \/ \E caller \in StatsCallers : SessionsStats(caller)
SpecStats == InitSession /\ [][NextStats]_vars

\* An administrator reading the statistics while sessions are created,
\* read, validated, destroyed and swept.  Reading changes nothing in the
\* registry, so a run is followed up to its first reading: what a later
\* reading returns is what a first reading returns in the run without the
\* earlier one.
StatsReader == StatsCaller(TRUE, "admin")
RegistryOps ==
    \/ \E u \in UserIds :
          LoginStart(RegistryCaller, u, TRUE)
              /\ UNCHANGED <<proxyVars, contentVars, acalls, authStarted, lastAuth, auditVars, itemVars, statsVars, typeVars>>
    \/ LoginResume(RegistryCaller)
          /\ UNCHANGED <<proxyVars, contentVars, acalls, authStarted, lastAuth, auditVars, itemVars, statsVars, typeVars>>
    \/ \E id \in DOMAIN sessions :
          GetSession(id)
              /\ UNCHANGED <<proxyVars, contentVars, acalls, authStarted, lastAuth, auditVars, itemVars, statsVars, typeVars>>
    \/ \E id \in DOMAIN sessions :
          ValidateSessionStart(RegistryCaller, id)
              /\ UNCHANGED <<proxyVars, contentVars, acalls, authStarted, lastAuth, auditVars, itemVars, statsVars, typeVars>>
    \/ FindOneSettles(RegistryCaller)
          /\ UNCHANGED <<proxyVars, contentVars, acalls, authStarted, lastAuth, auditVars, itemVars, statsVars, typeVars>>
    \/ ValidateSessionResume(RegistryCaller)
          /\ UNCHANGED <<proxyVars, contentVars, acalls, authStarted, lastAuth, auditVars, itemVars, statsVars, typeVars>>
    \/ \E id \in DOMAIN sessions :
          DestroySession(id)
              /\ UNCHANGED <<proxyVars, contentVars, acalls, authStarted, lastAuth, auditVars, itemVars, statsVars, typeVars>>
    \/ \E u \in UserIds :
          Logout(u)
              /\ UNCHANGED <<proxyVars, contentVars, acalls, authStarted, lastAuth, auditVars, itemVars, statsVars, typeVars>>
    \/ CleanupExpiredSessions
          /\ UNCHANGED <<proxyVars, contentVars, acalls, authStarted, lastAuth, auditVars, itemVars, statsVars, typeVars>>
    \/ DayPasses
          /\ UNCHANGED <<contentVars, authVars, sessionVars, auditVars, itemVars, statsVars, typeVars>>
NextCounts ==
    \/ (lastStats = NoStatsResult /\ RegistryOps)
    \/ SessionsStats(StatsReader)
SpecCounts == InitSession /\ [][NextCounts]_vars

\* The registry over days with cleanupExpiredSessions called from outside.
NextSweep ==
    \/ NextRegistry
    \/ CleanupExpiredSessions
          /\ UNCHANGED <<proxyVars, contentVars, acalls, authStarted, lastAuth, auditVars, itemVars, statsVars, typeVars>>
SpecSweep == InitSession /\ [][NextSweep]_vars

InitAudit == AuditInit /\ ProxyIdle /\ ContentIdle /\ AuthIdle /\ SessionIdle /\ ItemIdle /\ StatsIdle /\ TypesIdle
NextAudit ==
    \/ \E data \in AuditInputs, dbOk \in BOOLEAN :
          LogOperation(data, dbOk)
              /\ UNCHANGED <<proxyVars, contentVars, authVars, sessionVars, itemVars, statsVars, typeVars>>
    \/ \E contentId \in ContentIds, customUserId \in AuditUsers, dbOk \in BOOLEAN :
          CheckContentOwner(contentId, customUserId, dbOk)
              /\ UNCHANGED <<proxyVars, contentVars, authVars, sessionVars, itemVars, statsVars, typeVars>>
SpecAudit == InitAudit /\ [][NextAudit]_vars

InitService == ItemInit /\ ProxyIdle /\ ContentIdle /\ AuthIdle /\ SessionIdle /\ AuditIdle /\ StatsIdle /\ TypesIdle
NextService ==
    \E op \in ServiceOps, userRole \in ItemRoles, plural \in BOOLEAN,
       r1 \in UpstreamResults, r2 \in UpstreamResults, r3 \in FilterResults :
        ServiceCall(op, userRole, plural, r1, r2, r3)
            /\ UNCHANGED <<proxyVars, contentVars, authVars, sessionVars, auditVars, statsVars, typeVars>>
SpecService == InitService /\ [][NextService]_vars

InitItems == InitService
NextItems ==
    \/ \E req \in ItemRequests :
          ItemStart(req) /\ UNCHANGED <<proxyVars, contentVars, authVars, sessionVars, statsVars, typeVars>>
    \/ \E plural \in BOOLEAN, r1 \in UpstreamResults, r2 \in UpstreamResults,
          r3 \in FilterResults, dbOk \in BOOLEAN :
          PrefetchSettles(plural, r1, r2, r3, dbOk)
              /\ UNCHANGED <<proxyVars, contentVars, authVars, sessionVars, statsVars, typeVars>>
    \/ \E plural \in BOOLEAN, r1 \in UpstreamResults :
          ForwardSettles(plural, r1)
              /\ UNCHANGED <<proxyVars, contentVars, authVars, sessionVars, statsVars, typeVars>>
    \/ \E i \in 1..MaxItemWrites, saved \in BOOLEAN :
          AuditWriteSettles(i, saved)
              /\ UNCHANGED <<proxyVars, contentVars, authVars, sessionVars, statsVars, typeVars>>
SpecItems == InitItems /\ [][NextItems]_vars

(***************************************************************************)
(* Claims about the credential cache and the request forwarder.            *)
(***************************************************************************)

\* A step in which a getProxyJWT check on role r ran to its first await or
\* to its return (directly or inside forwardRequestToStrapi).
IsCheckStepOn(r) ==
    \/ \E p \in Procs :
          pcalls[p].pc = "idle" /\ pcalls'[p].pc = "login" /\ pcalls'[p].role = r
    \/ /\ lastProxy' # lastProxy
       /\ pcalls' = pcalls
       /\ lastProxy'.role = r
       /\ lastProxy'.source \in {"cache", "none"}

\* C1 (as claimed): for each of the roles admin, editor, author and viewer,
\* getProxyJWT(r) yields a token of the credential cache: it is served from
\* the cache without a login while the entry is valid, and otherwise comes
\* from one upstream login (which may be refused); the call never ends for
\* want of a proxy identity.
C1_AppRoleTokenReused ==
    \A r \in AppRoles :
        (lastProxy.op = "jwt" /\ lastProxy.role = r) =>
            /\ lastProxy.error # "ProxyUserNotFound"
            /\ lastProxy.source = "cache" => lastProxy.logins = 0

\* C2: a getProxyJWT(r) call that finds r's entry expired evicts it and
\* sends exactly one POST /admin/login; when the login succeeds it returns
\* the newly issued token and the cache holds that token with expiresAt six
\* days after the moment of caching.
C2_ExpiredEntryReauthenticated ==
    [][ /\ (lastProxy'.op = "jwt" /\ lastProxy'.stale) =>
              /\ lastProxy'.logins = 1
              /\ lastProxy'.outcome = "ok" => lastProxy'.source = "login"
        /\ \A p \in Procs :
              (pcalls[p].pc = "idle" /\ pcalls'[p].pc = "login" /\ pcalls'[p].stale) =>
                  /\ pcalls'[p].role \notin DOMAIN jwtCache'
                  /\ issued' = issued + 1
        /\ \A p \in Procs :
              (/\ pcalls[p].pc = "login" /\ pcalls[p].op = "jwt" /\ pcalls[p].stale
               /\ pcalls'[p].pc = "idle" /\ lastProxy'.outcome = "ok") =>
                  /\ pcalls[p].role \in DOMAIN jwtCache'
                  /\ jwtCache'[pcalls[p].role] =
                        [token |-> lastProxy'.token, expiresAt |-> now + CacheTtlMs]
                  /\ \A r \in DOMAIN jwtCache : jwtCache[r].token # lastProxy'.token
                  /\ issued' = issued
      ]_proxyVars

\* C2 witness: a getProxyJWT call that found an expired entry has returned a
\* token from a new login, and the cache holds it with a later expiry.
C2_Witness ==
    /\ lastProxy.op = "jwt" /\ lastProxy.stale /\ lastProxy.outcome = "ok"
    /\ lastProxy.source = "login"
    /\ lastProxy.role \in DOMAIN jwtCache
    /\ jwtCache[lastProxy.role].token = lastProxy.token
    /\ jwtCache[lastProxy.role].expiresAt > CacheTtlMs

\* C3: a token is served from the cache only when, at the check, the role's
\* entry exists, now < expiresAt and the token is that entry's; a check that
\* finds an entry with expiresAt <= now deletes it and does not serve it.
C3_NeverServedStale ==
    [][ /\ (lastProxy' # lastProxy /\ lastProxy'.source = "cache") =>
              /\ lastProxy'.role \in DOMAIN jwtCache
              /\ now < jwtCache[lastProxy'.role].expiresAt
              /\ lastProxy'.token = jwtCache[lastProxy'.role].token
        /\ \A r \in DOMAIN jwtCache :
              (now >= jwtCache[r].expiresAt /\ IsCheckStepOn(r)) =>
                  /\ r \notin DOMAIN jwtCache'
                  /\ ~(lastProxy' # lastProxy /\ lastProxy'.source = "cache")
      ]_proxyVars

\* C3 witness: an expired entry was found and evicted (the call is waiting
\* for its login), after a token had been served from the cache.
C3_Witness ==
    /\ lastProxy.source = "cache"
    /\ \E p \in Procs : pcalls[p].pc = "login" /\ pcalls[p].stale
    /\ jwtCache = << >>

\* The role has a static API token: configured and not blank.
HasApiToken(role) ==
    /\ RoleKey(role) \in DOMAIN apiTokens
    /\ Trim(apiTokens[RoleKey(role)]) # ""

\* C4 (as claimed): a forwarded request on a /api/ path carries the role's
\* API token when one is configured, and otherwise a session token of the
\* credential cache; a request on any other path carries a session token of
\* the credential cache.  The Authorization header never carries anything
\* else.
C4_CredentialSelection ==
    (lastProxy.op = "fwd" /\ lastProxy.error \notin {"ProxyUserNotFound", "AuthFailed"}) =>
        IF IncludesApi(lastProxy.url) /\ HasApiToken(lastProxy.role)
        THEN /\ lastProxy.source = "apiToken"
             /\ lastProxy.token = apiTokens[RoleKey(lastProxy.role)]
        ELSE lastProxy.source \in {"cache", "login"}

(***************************************************************************)
(* Claims about the content-type resolver.                                 *)
(***************************************************************************)

\* The catalog entries getContentTypes lists: collection and single types
\* that are not hidden.
ListedRaw ==
    {i \in 1..Len(catalog) :
        /\ catalog[i].kind \in {"collectionType", "singleType"}
        /\ catalog[i].visible # "false"}

\* The lower-cased name, singular name and plural name of a catalog entry.
RawAliases(t) ==
    {Lower(t.apiID), Lower(IF t.singularName # Empty THEN t.singularName ELSE t.apiID)}
        \cup (IF t.pluralName # Empty THEN {Lower(t.pluralName)} ELSE {})

\* The listed entries an input matches, and the one the resolver must pick.
RawMatches(param) == {i \in ListedRaw : Lower(param) \in RawAliases(catalog[i])}
FirstRawMatch(param) == CHOOSE i \in RawMatches(param) : \A j \in RawMatches(param) : i <= j

\* A step in which call p resumes after the catalog request and ends.
IsResumeStep(p) == ccalls[p].pc = "fetch" /\ ccalls'[p].pc = "idle"

\* C5: whatever getPluralName returns is the non-empty plural name the
\* upstream schema declares for a listed content type that matches the
\* input; in particular it returns input + 's' only when that is such a
\* declared plural.
C5_OnlyDeclaredPlural ==
    (lastContent.op = "plural" /\ lastContent.outcome = "ok") =>
        /\ lastContent.value # Empty
        /\ \E i \in RawMatches(lastContent.param) :
              catalog[i].pluralName = lastContent.value
        /\ lastContent.value = AppendS(lastContent.param) =>
              \E i \in RawMatches(lastContent.param) :
                  catalog[i].pluralName = AppendS(lastContent.param)

\* C5 witness: input + 's' was returned because the schema declares it.
C5_Witness ==
    /\ lastContent.outcome = "ok"
    /\ lastContent.value = AppendS(lastContent.param)

C7_SchemaErrorReachesCaller ==
    (/\ lastContent.op = "plural" /\ lastContent.response = "ok"
     /\ RawMatches(lastContent.param) # {}
     /\ catalog[FirstRawMatch(lastContent.param)].pluralName = Empty) =>
        /\ lastContent.outcome = "error"
        /\ lastContent.error = "SchemaError"

\* C8 (as claimed): once a content type has been resolved, each of its
\* aliases stays in the cache with that type's plural, and a later call by
\* such an alias returns that plural.
C8_AliasesKeepTheirPlural ==
    \A pr \in resolved :
        /\ pr[1] \in DOMAIN contentTypesCache
        /\ contentTypesCache[pr[1]].pluralName = pr[2]
        /\ (lastContent.op = "plural" /\ Lower(lastContent.param) = pr[1]) =>
              lastContent.value = pr[2]

(***************************************************************************)
(* Claims about identity resolution.                                       *)
(***************************************************************************)

\* C9 (as claimed): once a user's authKey is set, no step of any
\* platform-header authentication changes it.
C9_AuthKeyBoundOnce ==
    [][ \A u \in UserIds :
            usersDb[u].authKey # "" => usersDb'[u].authKey = usersDb[u].authKey ]_vars

\* A header that names the email of a user, in a table where nobody is blocked.
NamesUnblockedUser(header) ==
    /\ header.kind = "principal"
    /\ \E u \in UserIds : usersDb[u].email = header.email
    /\ \A u \in UserIds : ~usersDb[u].blocked

PlatformFailed ==
    /\ lastAuth.op = "canActivate"
    /\ \/ lastAuth.header.kind = "malformed"
       \/ lastAuth.azure \notin {"none", "ok"}

\* C11: after a platform-strategy failure, a request with a bearer token is
\* handed to the JWT strategy and is authenticated (as the JWT identity) when
\* that strategy accepts the token; a request without a bearer token fails
\* with the platform strategy's own error.  No request is authenticated
\* unless one of the strategies tried on it succeeded.
C11_FallThroughOrPropagate ==
    /\ PlatformFailed =>
          /\ lastAuth.azure \notin {"none", "ok"}
          /\ lastAuth.header.kind = "malformed" => lastAuth.azure = "InvalidPrincipal"
          /\ lastAuth.bearer # "none" =>
                /\ lastAuth.jwtInvoked
                /\ lastAuth.bearer = "valid" =>
                      /\ lastAuth.outcome = "ok"
                      /\ lastAuth.identity = JwtIdentity
          /\ lastAuth.bearer = "none" =>
                /\ lastAuth.outcome = "error"
                /\ lastAuth.error = lastAuth.azure
                /\ ~lastAuth.jwtInvoked
    /\ (lastAuth.op = "canActivate" /\ lastAuth.outcome = "ok") =>
          \/ lastAuth.azure = "ok"
          \/ lastAuth.jwtInvoked /\ lastAuth.bearer = "valid"

\* C11 witness: a request was authenticated by the JWT strategy after its
\* platform header had been rejected.
C11_Witness ==
    /\ PlatformFailed
    /\ lastAuth.bearer = "valid"
    /\ lastAuth.outcome = "ok"
    /\ lastAuth.identity.authType = "jwt"

\* A request without platform header and without bearer token.
NoCredentialsGiven(result) ==
    /\ result.op = "canActivate"
    /\ result.header.kind = "absent"
    /\ result.bearer = "none"

\* C12: a request with neither a platform header nor a bearer token fails
\* with the no-credentials error; neither strategy is invoked for it and the
\* step that rejects it leaves the session registry as it was.
C12_NoCredentialsRejected ==
    [][ /\ NoCredentialsGiven(lastAuth') =>
              /\ lastAuth'.outcome = "error"
              /\ lastAuth'.error = "NoCredentials"
              /\ lastAuth'.azure = "none"
              /\ ~lastAuth'.jwtInvoked
              /\ lastAuth'.sessionId = NoSessionId
        /\ (NoCredentialsGiven(lastAuth') /\ lastAuth' # lastAuth) =>
              /\ sessions' = sessions
              /\ sessionSeq' = sessionSeq
              /\ usersDb' = usersDb
      ]_vars

\* C12 witness: such a request was rejected while sessions exist.
C12_Witness ==
    /\ NoCredentialsGiven(lastAuth)
    /\ lastAuth.error = "NoCredentials"
    /\ DOMAIN sessions # {}

(***************************************************************************)
(* Claims about the session registry.                                      *)
(***************************************************************************)

\* A step in which call p of validateSession resumes after findOne, having
\* found no user or a blocked one.
IsDeadUserResume(p) ==
    /\ scalls[p].pc = "resume" /\ scalls[p].op = "validateSession"
    /\ scalls'[p].pc = "idle"
    /\ (scalls[p].user.id = NoUser \/ scalls[p].user.blocked)

\* C13 (as claimed): validateSession on a session whose user is missing or
\* blocked returns null, removes that session and leaves every other session
\* as it was; and a session removed this way is never in the registry again.
C13_DeadUserSessionGone ==
    [][ /\ \A p \in SessionCallers :
              IsDeadUserResume(p) =>
                  /\ lastSession'.op = "validateSession"
                  /\ lastSession'.outcome = "none"
                  /\ scalls[p].sessionId \notin DOMAIN sessions'
                  /\ \A id \in (DOMAIN sessions) \ {scalls[p].sessionId} :
                        id \in DOMAIN sessions' /\ sessions'[id] = sessions[id]
        /\ \A id \in DOMAIN sessions' : sessions'[id].obj \notin evicted'
      ]_vars

\* A step of destroyUserSessions(u).
IsLogoutStep(u) ==
    /\ lastSession'.op = "destroyUserSessions"
    /\ lastSession'.userId = u
    /\ scalls' = scalls
    /\ usersDb' = usersDb
    /\ (lastSession' # lastSession \/ sessions' # sessions)

\* C14: destroyUserSessions(u) returns the number of sessions u held, leaves
\* no session of u in the registry and leaves the sessions of every other
\* user present and unchanged.
C14_LogoutDestroysExactlyOwn ==
    [][ \A u \in UserIds :
            IsLogoutStep(u) =>
                /\ lastSession'.count =
                      Cardinality({id \in DOMAIN sessions : sessions[id].userId = u})
                /\ \A id \in DOMAIN sessions' : sessions'[id].userId # u
                /\ \A id \in DOMAIN sessions :
                      sessions[id].userId # u =>
                          id \in DOMAIN sessions' /\ sessions'[id] = sessions[id]
      ]_vars

\* C14 witness: a user's sessions were destroyed while another user keeps one.
C14_Witness ==
    /\ lastSession.op = "destroyUserSessions"
    /\ lastSession.count >= 1
    /\ \E id \in DOMAIN sessions : sessions[id].userId # lastSession.userId

\* C15 (as claimed): every createSession adds exactly one entry to the
\* registry and leaves the entries that were there as they were.
C15_CreateNeverOverwrites ==
    [][ sessionSeq' = sessionSeq + 1 =>
            /\ Cardinality(DOMAIN sessions') = Cardinality(DOMAIN sessions) + 1
            /\ \A id \in DOMAIN sessions : sessions'[id] = sessions[id]
      ]_vars

(***************************************************************************)
(* Claims about the audit log.                                             *)
(***************************************************************************)

\* The user of the earliest 'created' row of a content id ("" when the row
\* has no user), provided there is such a row.
HasCreatedRow(contentId) ==
    \E i \in 1..Len(auditLog) :
        auditLog[i].contentId = contentId /\ auditLog[i].action = "created"

EarliestCreator(contentId) ==
    LET i == CHOOSE k \in 1..Len(auditLog) :
                 /\ auditLog[k].contentId = contentId /\ auditLog[k].action = "created"
                 /\ \A j \in 1..(k - 1) :
                       ~(auditLog[j].contentId = contentId /\ auditLog[j].action = "created")
    IN  auditLog[i].customUserId

CreatedBy(contentId, customUserId) ==
    HasCreatedRow(contentId) /\ EarliestCreator(contentId) = customUserId

\* C16 (as claimed): isContentOwner(id, u) is true exactly when the earliest
\* 'created' row of id carries customUserId u.
C16_OwnerIffEarliestCreator ==
    lastAudit.op = "isContentOwner" =>
        (lastAudit.result <=> CreatedBy(lastAudit.contentId, lastAudit.customUserId))

\* C16 (amended): isContentOwner(id, u) is true only when the earliest
\* 'created' row of id carries customUserId u, whatever rows were logged
\* later; for a non-empty u it is true in that case whenever the audit-log
\* query succeeds, and it is false when the query fails or u is empty.
C16_OwnerOnlyEarliestCreator ==
    lastAudit.op = "isContentOwner" =>
        /\ lastAudit.result => CreatedBy(lastAudit.contentId, lastAudit.customUserId)
        /\ (lastAudit.dbOk /\ lastAudit.customUserId # ""
              /\ CreatedBy(lastAudit.contentId, lastAudit.customUserId)) => lastAudit.result
        /\ (~lastAudit.dbOk \/ lastAudit.customUserId = "") => ~lastAudit.result

\* C16 witness: a user was found to be the owner although another user has
\* since logged a 'created' row for the same content id.
C16_Witness ==
    /\ lastAudit.op = "isContentOwner"
    /\ lastAudit.result
    /\ \E i \in 1..Len(auditLog) :
          /\ auditLog[i].contentId = lastAudit.contentId
          /\ auditLog[i].action = "created"
          /\ auditLog[i].customUserId \notin {"", lastAudit.customUserId}

(***************************************************************************)
(* Claims about the content routes.                                        *)
(***************************************************************************)
MutatingOps == {"create", "update", "delete", "duplicate"}
OwnedOps == {"update", "delete", "duplicate"}

\* C17: a request whose role is viewer never causes a create, update,
\* delete or duplicate upstream: it is rejected as Forbidden with nothing
\* forwarded.
C17_ViewerNeverMutates ==
    (lastItem.role = "viewer" /\ lastItem.op \in MutatingOps) =>
        (lastItem.outcome = "forbidden" /\ ~lastItem.forwarded)

\* C18: an author's update, delete or duplicate is forwarded only if
\* isContentOwner returned true for that caller and item; in every other
\* case the request ends Forbidden with nothing forwarded.
C18_AuthorOnlyOwnContent ==
    (lastItem.role = "author" /\ lastItem.op \in OwnedOps) =>
        /\ lastItem.forwarded => lastItem.checked = "true"
        /\ lastItem.checked # "true" =>
               (lastItem.outcome = "forbidden" /\ ~lastItem.forwarded)

\* C19: when the item cannot be fetched for an author's update, delete or
\* duplicate, the caller is treated as not the owner: the request ends
\* Forbidden and the mutation is not forwarded.
C19_FetchFailureMeansNotOwner ==
    (lastItem.role = "author" /\ lastItem.op \in OwnedOps /\ lastItem.fetched = "failed") =>
        (lastItem.outcome = "forbidden" /\ ~lastItem.forwarded)

\* C20: when the upstream call of a content-item operation fails, the
\* operation raises an exception carrying the status of the upstream's error
\* response, or 500 when there was no response: an operation none of whose
\* calls succeeded never returns normally, and a failure other than the 404
\* that starts getContentItem's next attempt is always re-raised with its
\* own status.
FailedTries == {i \in 1..Len(lastService.tries) : lastService.tries[i] \in UpstreamFailures}

C20_UpstreamFailureRaised ==
    /\ (FailedTries # {} /\ \A i \in 1..Len(lastService.tries) : lastService.tries[i] # "ok") =>
           lastService.outcome = "exception"
    /\ \A i \in FailedTries :
           (lastService.tries[i] # "404" \/ i = Len(lastService.tries)) =>
               /\ lastService.outcome = "exception"
               /\ lastService.status = ExtractStatus(lastService.tries[i])

\* C21: a failed audit write never fails the parent operation: when a
\* pending logOperation call settles, whether its row was saved or not, the
\* response already returned to the caller and every request in flight are
\* left as they were, and a response never waits for the write to settle.
C21_AuditWriteNeverFailsParent ==
    [][/\ Len(pendingAudit') < Len(pendingAudit) => (lastItem' = lastItem /\ icall' = icall)
       /\ Len(pendingAudit') > Len(pendingAudit) =>
              (lastItem'.outcome = "ok" /\ icall'.pc = "idle")]_vars

\* C21 witness: a create was answered normally and its audit row was lost.
C21_Witness ==
    /\ lastItem.op = "create"
    /\ lastItem.outcome = "ok"
    /\ auditLog = << >>
    /\ pendingAudit = << >>

(***************************************************************************)
(* Claims about session expiry and role refresh.                           *)
(***************************************************************************)
StaleSessions == ExpiredSessions(sessions, now)

\* C22: every session idle for more than 24 hours is eventually removed
\* from the registry without a request triggering it.
C22_StaleSessionsEventuallySwept == (StaleSessions # {}) ~> (StaleSessions = {})

\* A step in which validateSession finishes for a user that exists and is
\* not blocked.
IsLiveValidateResume ==
    LET c == scalls[RegistryCaller]
    IN  /\ c.pc = "resume" /\ c.op = "validateSession"
        /\ scalls'[RegistryCaller].pc = "idle"
        /\ c.user.id # NoUser /\ ~c.user.blocked

\* C24: validateSession on a live session of an existing, unblocked user
\* reads the user's stored role as it is at that moment, returns the session
\* and leaves the registry entry carrying that role.
C24_ValidateRefreshesRole ==
    [][/\ (scalls[RegistryCaller].pc = "query" /\ scalls'[RegistryCaller].pc = "resume") =>
              scalls'[RegistryCaller].user.role = usersDb[scalls[RegistryCaller].userId].role
       /\ IsLiveValidateResume =>
              /\ lastSession'.op = "validateSession" /\ lastSession'.outcome = "session"
              /\ scalls[RegistryCaller].sessionId \in DOMAIN sessions'
              /\ sessions'[scalls[RegistryCaller].sessionId].role =
                     scalls[RegistryCaller].user.role]_vars

\* C24 witness: a validation has put into a session a role other than the
\* one its user logged in with.
C24_Witness ==
    /\ lastSession.op = "validateSession" /\ lastSession.outcome = "session"
    /\ \E id \in DOMAIN sessions :
          /\ sessions[id].userId = "u1"
          /\ sessions[id].role = "admin"
          /\ usersDb["u1"].role = "admin"

\* A step of cleanupExpiredSessions.
IsSweepStep == lastSession'.op = "cleanupExpiredSessions" /\ lastSession' # lastSession

\* C28: cleanupExpiredSessions removes exactly the sessions whose
\* lastAccessedAt is more than 24 hours before the sweep time and returns
\* their number; every other session stays as it was, and a session that is
\* created, fetched or validated has its lastAccessedAt set to that moment.
C28_SweepRemovesExactlyExpired ==
    [][/\ IsSweepStep =>
              /\ DOMAIN sessions' =
                     {id \in DOMAIN sessions : now - sessions[id].lastAccessedAt <= 24 * 60 * 60 * 1000}
              /\ \A id \in DOMAIN sessions' : sessions'[id] = sessions[id]
              /\ lastSession'.count = Cardinality((DOMAIN sessions) \ (DOMAIN sessions'))
       /\ (lastSession'.op \in {"login", "getSession"} /\ lastSession'.outcome = "session"
              /\ lastSession' # lastSession) =>
              \E id \in DOMAIN sessions' : sessions'[id].lastAccessedAt = now
       /\ (scalls[RegistryCaller].pc = "idle" /\ scalls'[RegistryCaller].pc = "query") =>
              sessions'[scalls'[RegistryCaller].sessionId].lastAccessedAt = now]_vars

\* C28 witness: a sweep has removed one session and kept another that was
\* idle for exactly 24 hours.
C28_Witness ==
    /\ lastSession.op = "cleanupExpiredSessions"
    /\ lastSession.count = 1
    /\ \E id \in DOMAIN sessions : now - sessions[id].lastAccessedAt = 24 * 60 * 60 * 1000

C25_IdentifierOrEmailRequired ==
    /\ \A r \in Requests :
          (acalls[r].pc \in {"findByKeyOrEmail", "findByEmail", "save"}) =>
              (acalls[r].header.email # "" \/ acalls[r].header.nameidentifier # "")
    /\ (lastAuth.header.kind = "principal"
          /\ lastAuth.header.email = "" /\ lastAuth.header.nameidentifier = "") =>
           (lastAuth.azure = "MissingIdentifier" /\ lastAuth.identity.authType # "azure-easy-auth")

\* C26: when no local user matches the header the platform strategy fails
\* NotFound, and when the matched user is blocked it fails Forbidden; in both
\* cases it returns no identity and creates no session.
C26_FailureKindsDistinguished ==
    /\ lastAuth.azure = "UserNotFound" => ExceptionOf(lastAuth.azure) = "NotFound"
    /\ lastAuth.azure = "Blocked" => ExceptionOf(lastAuth.azure) = "Forbidden"
    /\ lastAuth.azure \in {"UserNotFound", "Blocked"} =>
           (lastAuth.identity.authType # "azure-easy-auth" /\ lastAuth.sessionId = NoSessionId)

\* The role the claim assigns: by containment in the whole role claim, and
\* the stored role ('viewer' when none is stored) without a role claim.
ClaimedRole(storedRole, rolesClaim) ==
    IF rolesClaim = Empty THEN (IF storedRole # "" THEN storedRole ELSE "viewer")
    ELSE IF Includes(Lower(rolesClaim), <<"a", "d", "m", "i", "n">>) THEN "admin"
    ELSE IF Includes(Lower(rolesClaim), <<"e", "d", "i", "t", "o", "r">>) THEN "editor"
    ELSE IF Includes(Lower(rolesClaim), <<"a", "u", "t", "h", "o", "r">>) THEN "author"
    ELSE "viewer"

\* C27: the role of a platform-header identity is admin if the role claim
\* contains 'admin', else editor if it contains 'editor', else author if it
\* contains 'author', else viewer; without a role claim it is the stored
\* role of the user.
C27_RoleFromClaim ==
    (lastAuth.azure = "ok" /\ lastAuth.identity.userId \in DOMAIN usersDb) =>
        lastAuth.identity.role =
            ClaimedRole(usersDb[lastAuth.identity.userId].role, lastAuth.header.roles)

(***************************************************************************)
(* Claims about the session statistics route.                              *)
(***************************************************************************)
\* C30: GET /api/auth/sessions/stats answers with the statistics only for an
\* authenticated caller whose role is admin after normalization ('admin',
\* 'Super Admin'); any other role is rejected as Forbidden and an
\* unauthenticated caller as Unauthorized.
C30_StatsAdminOnly ==
    lastStats.outcome # "none" =>
        /\ lastStats.outcome = "ok" <=>
               (lastStats.caller.authenticated
                   /\ lastStats.caller.role \in {"admin", "Admin", "Super Admin", "superadmin"})
        /\ ~lastStats.caller.authenticated <=> lastStats.outcome = "Unauthorized"
        /\ lastStats.outcome # "ok" => lastStats.stats = NoStats

\* C30 witness: a 'Super Admin' caller was given the statistics of a
\* registry that holds sessions.
C30_Witness ==
    /\ lastStats.outcome = "ok"
    /\ lastStats.caller.role = "Super Admin"
    /\ lastStats.stats.totalSessions > 0

(***************************************************************************)
(* Claims about the immutability of the audit log.                         *)
(***************************************************************************)
\* C29: the audit log is append-only: every step of the content routes
\* (prefetch, update, delete, the audit write itself) leaves the rows already
\* written where and as they are, and adds at most one row.
C29_AuditLogAppendOnly ==
    [][/\ Len(auditLog') <= Len(auditLog) + 1
       /\ Len(auditLog') >= Len(auditLog)
       /\ SubSeq(auditLog', 1, Len(auditLog)) = auditLog]_vars

\* C29 witness: the 'created' row of an item is still in the log, followed
\* by the row of a later update or deletion of the same item.
C29_Witness ==
    \E i, j \in 1..Len(auditLog) :
        /\ i < j
        /\ auditLog[i].action = "created"
        /\ auditLog[j].action \in {"updated", "deleted"}
        /\ auditLog[j].contentId = auditLog[i].contentId

(***************************************************************************)
(* Claims about the content-types routes.                                  *)
(***************************************************************************)
\* C31: createContentType issues the upstream schema-creation call only for
\* the role 'admin'; for every other role it fails without any upstream
\* call.
C31_OnlyAdminCreatesSchema ==
    lastTypes.op = "create" =>
        /\ lastTypes.calls # << >> => lastTypes.role = "admin"
        /\ lastTypes.role # "admin" =>
              (lastTypes.outcome = "exception" /\ lastTypes.calls = << >>)

\* C31 witness: an admin had the schema created upstream and got the new
\* type back.
C31_Witness ==
    /\ lastTypes.op = "create"
    /\ lastTypes.role = "admin"
    /\ lastTypes.calls = <<"POST", "GET">>
    /\ lastTypes.outcome = "ok"

\* C32: no descriptor has a synthesized plural.  Every descriptor of the
\* list carries the plural its upstream entry declares (or none), and the
\* descriptor returned for a non-empty slug carries a plural declared by an
\* upstream entry of that name, never the name with 's' appended.
C32_PluralNeverSynthesized ==
    /\ (lastTypes.op = "list" /\ lastTypes.outcome = "ok") =>
          LET listed == SelectSeq(lastTypes.upstream, IsListed)
          IN  /\ Len(lastTypes.types) = Len(listed)
              /\ \A i \in 1..Len(listed) :
                    lastTypes.types[i].pluralName = listed[i].pluralName
    /\ (lastTypes.op \in {"get", "create"} /\ lastTypes.outcome = "ok"
           /\ lastTypes.slug # Empty) =>
          \E i \in 1..Len(lastTypes.upstream) :
              /\ lastTypes.upstream[i].apiID = lastTypes.types[1].name
              /\ lastTypes.types[1].pluralName # Empty
              /\ lastTypes.types[1].pluralName \in
                    {lastTypes.upstream[i].infoPlural, lastTypes.upstream[i].schemaPlural}

\* C32 witness: a type was looked up by a non-empty slug and came back with
\* its irregular declared plural, which is not its name followed by 's'.
C32_Witness ==
    /\ lastTypes.op = "get"
    /\ lastTypes.outcome = "ok"
    /\ lastTypes.slug # Empty
    /\ lastTypes.types[1].pluralName # AppendS(lastTypes.types[1].name)

\* C36: when the upstream catalog answer has none of the recognised
\* envelope shapes, listing the content types fails with an error instead of
\* returning a result.
C36_UnrecognizedShapeFails ==
    (lastTypes.op = "list" /\ lastTypes.response = "badShape") =>
        lastTypes.outcome = "exception"

(***************************************************************************)
(* Claims about the fallback attempts of getContentItem and about the      *)
(* catalog fetch of getPluralName.                                         *)
(***************************************************************************)
\* C35: getContentItem makes at most three upstream attempts; a later
\* attempt is made only after the previous one failed with 404; a non-404
\* failure ends the call with the upstream status; the first success is
\* returned; when every attempt finds nothing the call fails with 404.
C35_FallbackOnlyAfter404 ==
    lastService.op = "get" /\ lastService.tries # << >> =>
        LET tries == lastService.tries
            last == tries[Len(tries)]
        IN  /\ Len(tries) <= 3
            /\ \A i \in 1..(Len(tries) - 1) : tries[i] = "404"
            /\ last = "ok" => lastService.outcome = "ok"
            /\ last \in UpstreamFailures \ {"404"} =>
                  /\ lastService.outcome = "exception"
                  /\ lastService.status = ExtractStatus(last)
            /\ last \in {"404", "empty"} =>
                  /\ Len(tries) = 3
                  /\ lastService.outcome = "exception"
                  /\ lastService.status = 404

\* C40: an upstream failure of the catalog fetch inside getPluralName reaches
\* the caller as the upstream error, not as another error.
C40_CatalogFailureReachesCaller ==
    (lastContent.op = "plural" /\ lastContent.fetched /\ lastContent.response = "error") =>
        /\ lastContent.outcome = "error"
        /\ lastContent.error = "Upstream"

(***************************************************************************)
(* Claims about the session statistics.                                    *)
(***************************************************************************)
\* The users that have at least one session in the registry.
UsersWithSessions == {u \in UserIds : \E id \in DOMAIN sessions : sessions[id].userId = u}

IsStatsStep == lastStats' # lastStats /\ lastStats'.outcome = "ok"

\* C33: whatever creations, reads, validations, destructions and sweeps came
\* before, the statistics report the number of sessions in the registry and
\* the number of distinct users having a session; activeUsers is at most
\* totalSessions and both are 0 together.
C33_StatsCountRegistry ==
    [][IsStatsStep =>
          /\ lastStats'.stats.totalSessions = Cardinality(DOMAIN sessions)
          /\ lastStats'.stats.activeUsers = Cardinality(UsersWithSessions)
          /\ lastStats'.stats.activeUsers <= lastStats'.stats.totalSessions
          /\ (lastStats'.stats.activeUsers = 0) <=> (lastStats'.stats.totalSessions = 0)]_vars

\* C33 witness: the statistics were read while one user held two sessions.
C33_Witness ==
    /\ lastStats.outcome = "ok"
    /\ lastStats.stats = [totalSessions |-> 2, activeUsers |-> 1]
    /\ Cardinality(DOMAIN sessions) = 2

(***************************************************************************)
(* Claims about the user lookup of the platform-header strategy.           *)
(***************************************************************************)
\* The users whose authKey is the external identifier of the header.
KeyUsers(header) ==
    {u \in DOMAIN usersDb :
        header.nameidentifier # "" /\ usersDb[u].authKey = header.nameidentifier}

\* The first lookup of request r settles in this step.
IsLookupStep(r) == acalls[r].pc = "findByKeyOrEmail" /\ acalls'[r] # acalls[r]

\* C34: the local user is looked up by external identifier first and by
\* email only when no user has that identifier: when an unblocked user
\* carries the header's identifier, that user is the one authenticated, even
\* if another user carries the header's email.
C34_IdentifierBeforeEmail ==
    [][\A r \in Requests :
          (/\ IsLookupStep(r)
           /\ KeyUsers(acalls[r].header) # {}
           /\ \A u \in KeyUsers(acalls[r].header) : ~usersDb[u].blocked) =>
              /\ acalls'[r] = IdleAuthCall
              /\ lastAuth'.header = acalls[r].header
              /\ lastAuth'.outcome = "ok"
              /\ lastAuth'.identity.userId \in KeyUsers(acalls[r].header)]_vars

(***************************************************************************)
(* Claims about concurrent getProxyJWT calls.                              *)
(***************************************************************************)
\* The calls waiting for the login of role's proxy user.
LoggingIn(calls, role) == {p \in Procs : calls[p].pc = "login" /\ calls[p].role = role}

\* Call p returns a token from a login that succeeded in this step.
IsLoginReturn(p) == pcalls[p].pc = "login" /\ pcalls'[p].pc = "idle" /\ lastProxy'.source = "login"

\* C37: calls racing on a cold or expired cache each send one login, never
\* more; each returns the token its own login was answered with; and when
\* the last of them has finished the cache holds for the role one unexpired
\* entry with a token one of those logins was answered with.
C37_RacingLoginsTolerated ==
    [][\A p \in Procs : IsLoginReturn(p) =>
          /\ lastProxy'.logins = 1
          /\ pcalls[p].login \in 1..issued
          /\ lastProxy'.token = MintToken(pcalls[p].login)
          /\ Cardinality(LoggingIn(pcalls, pcalls[p].role)) <= Cardinality(Procs)
          /\ LoggingIn(pcalls', pcalls[p].role) = {} =>
                /\ pcalls[p].role \in DOMAIN jwtCache'
                /\ IsFresh(jwtCache'[pcalls[p].role], now')
                /\ jwtCache'[pcalls[p].role].token \in {MintToken(n) : n \in 1..issued}]_vars

\* C37 witness: two calls found the cache cold and each sent a login; both
\* have finished, and the cache holds the token of the first login sent,
\* which was answered last.
C37_Witness ==
    /\ now = 0
    /\ issued = 2
    /\ \A p \in Procs : pcalls[p].pc = "idle"
    /\ lastProxy.op = "jwt" /\ lastProxy.source = "login"
    /\ lastProxy.token = MintToken(1)
    /\ lastProxy.role \in DOMAIN jwtCache
    /\ jwtCache[lastProxy.role].token = MintToken(1)

(***************************************************************************)
(* Claims about destroyed sessions.                                        *)
(***************************************************************************)
\* Caller p's validateSession resumes in this step, after findOne.
IsValidateResume(p) ==
    /\ scalls[p].pc = "resume" /\ scalls[p].op = "validateSession"
    /\ scalls'[p].pc = "idle"

\* C38: a session removed by destroySession or destroyUserSessions is never
\* in the registry again: a validateSession that was suspended on its user
\* lookup while the session was destroyed does not put it back when it
\* resumes.  (A session missing at the resume without having been evicted by
\* a validateSession was removed by one of the two.)
C38_DestroyedStaysDestroyed ==
    [][\A p \in SessionCallers :
          (/\ IsValidateResume(p)
           /\ scalls[p].sessionId \notin DOMAIN sessions
           /\ scalls[p].session.obj \notin evicted) =>
              scalls[p].sessionId \notin DOMAIN sessions']_vars

(***************************************************************************)
(* Claims about what adds sessions to the registry.                        *)
(***************************************************************************)
\* The session ids this step adds to the registry.
AddedSessions == (DOMAIN sessions') \ (DOMAIN sessions)

\* A login of caller p finishes in this step.
IsLoginReturnOf(p) ==
    /\ scalls[p].pc = "resume" /\ scalls[p].op = "login"
    /\ scalls'[p].pc = "idle"

\* C39: only a successful login (or registration, or platform-header
\* authentication, which create their session the same way) adds a session
\* to the registry, and it adds exactly one; a failed login leaves the
\* registry as it was.
C39_OnlySuccessAddsOneSession ==
    [][/\ AddedSessions # {} =>
             \E p \in SessionCallers :
                 IsLoginReturnOf(p) /\ lastSession'.outcome = "session"
       /\ \A p \in SessionCallers :
             IsLoginReturnOf(p) =>
                 IF lastSession'.outcome = "session"
                 THEN Cardinality(AddedSessions) = 1
                 ELSE sessions' = sessions]_vars

====
